---- MODULE Spec2Model ----
(***************************************************************************)
(* brainmuck (crates/core): source bytes -> statement list -> control-flow *)
(* graph -> optimized control-flow graph -> bytecode -> interpreter.       *)
(***************************************************************************)
EXTENDS Integers, Sequences, FiniteSets, TLC

(* ------------------------------ bounds --------------------------------- *)

\* longest source text drawn for the compilation pipeline
MaxLen == 4
\* longest source text drawn for the interpreter runs
MaxRunLen == 4
\* length of the universe (the tape) handed to the interpreter
TapeLen == 2
\* number of callback invocations recorded for one run
MaxCalls == 2
\* longest instruction list of a hand-made block
MaxInstrs == 3

(* --------------------------- program constants ------------------------- *)

\* u8 arithmetic: wrapping_add on the cell and on ChangeVal deltas
ByteMod == 256

(* ------------------------------ source bytes --------------------------- *)

NL == "\n"
\* the eight instruction bytes of parse()'s match
InstrBytes == {"+", "-", ">", "<", ".", ",", "[", "]"}
\* ... a newline, and one byte that falls to the `_ => None` arm
Bytes == InstrBytes \cup {NL, "x"}

SourcesOver(alphabet, n) == UNION {[1..k -> alphabet] : k \in 0..n}

(* ------------------------------ parsing.rs ----------------------------- *)

Stmt(op, id) == [op |-> op, id |-> id]
\* Option::None pushed for a skipped byte
NoneStmt == Stmt("None", 0)

TooManyCloseBrackets == "TooManyCloseBrackets"
\* parse() spells the variant TooManyOpenBrackets; errors.rs declares it as
\* NotEnoughCloseBrackets
TooManyOpenBrackets == "NotEnoughCloseBrackets"

\* Reason::message_identifier
message_identifier(reason) ==
    CASE reason = "TooManyCloseBrackets"   -> 1
      [] reason = "NotEnoughCloseBrackets" -> 2

\* ConditionalStack::new, LocationTracker::new and the empty statement vector
ParseStart ==
    [statements |-> <<>>, stack |-> <<>>, next_id |-> 0, line_number |-> 1,
     failed |-> FALSE, reason |-> "", line_no |-> 0]

\* ConditionalStack::next
StackNext(st) ==
    [st EXCEPT !.next_id = st.next_id + 1,
               !.stack = Append(st.stack, st.next_id)]

\* a pop that takes the oldest open conditional off the stack
StackPop_oldest(st) ==
    [st EXCEPT !.stack = Tail(st.stack)]

\* ConditionalStack::pop (the caller has checked that the stack is not empty)
StackPop(st) ==
    [st EXCEPT !.stack = SubSeq(st.stack, 1, Len(st.stack) - 1)]

\* a parser without the check for brackets left open
has_unmatched_brackets_never(st) == FALSE

\* ConditionalStack::has_unmatched_brackets
has_unmatched_brackets(st) == st.stack # <<>>

\* LocationTracker::increment_line_number
increment_line_number(st) == [st EXCEPT !.line_number = st.line_number + 1]

\* an error that reports the line the tracker started at
into_error_first_line(st, reason) ==
    [st EXCEPT !.failed = TRUE, !.reason = reason, !.line_no = 1]

\* LocationTracker::into_error
into_error(st, reason) ==
    [st EXCEPT !.failed = TRUE, !.reason = reason, !.line_no = st.line_number]

Push(st, s) == [st EXCEPT !.statements = Append(st.statements, s)]

\* one iteration of the `for byte in source_text` loop
ParseByte(st, byte) ==
    CASE byte = "+" -> Push(st, Stmt("IncrementVal", 0))
      [] byte = "-" -> Push(st, Stmt("DecrementVal", 0))
      [] byte = ">" -> Push(st, Stmt("IncrementAddr", 0))
      [] byte = "<" -> Push(st, Stmt("DecrementAddr", 0))
      [] byte = "." -> Push(st, Stmt("PutChar", 0))
      [] byte = "," -> Push(st, Stmt("GetChar", 0))
      [] byte = "[" -> Push(StackNext(st), Stmt("StartConditional", st.next_id))
      [] byte = "]" ->
            IF st.stack = <<>>
            THEN into_error(st, TooManyCloseBrackets)
            ELSE Push(StackPop(st), Stmt("EndConditional", st.stack[Len(st.stack)]))
      [] byte = NL -> Push(increment_line_number(st), NoneStmt)
      [] OTHER -> Push(st, NoneStmt)

RECURSIVE ParseLoop(_, _, _)
ParseLoop(st, text, i) ==
    IF i > Len(text) \/ st.failed THEN st
    ELSE ParseLoop(ParseByte(st, text[i]), text, i + 1)

\* a collect that stops at the first skipped byte
Flatten_until_none(opts) ==
    LET nones == {i \in DOMAIN opts : opts[i] = NoneStmt}
    IN  IF nones = {} THEN opts
        ELSE SubSeq(opts, 1, (CHOOSE i \in nones : \A j \in nones : i <= j) - 1)

\* statements.into_iter().flatten().collect()
Flatten(opts) == SelectSeq(opts, LAMBDA s : s # NoneStmt)

\* parse(): Ok(statements) or Err(reason, line)
parse(text) ==
    LET st == ParseLoop(ParseStart, text, 1)
        Err(e) == [ok |-> FALSE, statements |-> <<>>, reason |-> e.reason,
                   line_no |-> e.line_no]
    IN  IF st.failed THEN Err(st)
        ELSE IF has_unmatched_brackets(st) THEN Err(into_error(st, TooManyOpenBrackets))
        ELSE [ok |-> TRUE, statements |-> Flatten(st.statements), reason |-> "",
              line_no |-> 0]

(* --------------------------------- ir.rs ------------------------------- *)

Instr(op, arg) == [op |-> op, arg |-> arg]
BasicBlock(label, instructions) == [block_id |-> label, instructions |-> instructions]

\* a conversion that loses the sign of a decrement
try_from_unsigned(statement) ==
    CASE statement.op = "IncrementVal"  -> Instr("ChangeVal", 1)
      [] statement.op = "DecrementVal"  -> Instr("ChangeVal", 1)
      [] statement.op = "IncrementAddr" -> Instr("ChangeAddr", 1)
      [] statement.op = "DecrementAddr" -> Instr("ChangeAddr", -1)
      [] statement.op = "PutChar"       -> Instr("PutChar", 0)
      [] statement.op = "GetChar"       -> Instr("GetChar", 0)
      [] OTHER                          -> Instr("Err", 0)

\* TryFrom<Statement> for ThreeAddressInstruction; -1i8 as u8 is 255
try_from(statement) ==
    CASE statement.op = "IncrementVal"  -> Instr("ChangeVal", 1)
      [] statement.op = "DecrementVal"  -> Instr("ChangeVal", ByteMod - 1)
      [] statement.op = "IncrementAddr" -> Instr("ChangeAddr", 1)
      [] statement.op = "DecrementAddr" -> Instr("ChangeAddr", -1)
      [] statement.op = "PutChar"       -> Instr("PutChar", 0)
      [] statement.op = "GetChar"       -> Instr("GetChar", 0)
      [] OTHER                          -> Instr("Err", 0)

\* Option<ThreeAddressInstruction>, or the panic of an arithmetic overflow
NoInstr == [kind |-> "None"]
SomeInstr(instr) == [kind |-> "Some", instr |-> instr]
Overflow == [kind |-> "panic"]

\* BasicBlock::last_instruction.  For an empty block `n - 1` is 0usize - 1: a
\* build with overflow checks (the dev profile) panics there, a build without
\* them (the release profile) wraps to usize::MAX and get() gives None.
BasicBlock_last_instruction(block, overflow_checks) ==
    LET n == Len(block.instructions) IN
    IF n = 0 THEN (IF overflow_checks THEN Overflow ELSE NoInstr)
    ELSE SomeInstr(block.instructions[n])

\* ControlFlowGraph::last_instruction: blocks().last().and_then(...)
ControlFlowGraph_last_instruction(blocks, overflow_checks) ==
    IF blocks = <<>> THEN NoInstr
    ELSE BasicBlock_last_instruction(blocks[Len(blocks)], overflow_checks)

\* a patch that checks the placeholder and then leaves it as it is
replace_noop_with_branch_target_unpatched(block, target) ==
    IF block.instructions # <<Instr("NoOp", 0)>>
    THEN [ok |-> FALSE, block |-> block]
    ELSE [ok |-> TRUE, block |-> block]

\* BasicBlock::replace_noop_with_branch_target; panics (ok = FALSE) unless
\* the block is exactly [NoOp]
replace_noop_with_branch_target(block, target) ==
    IF block.instructions # <<Instr("NoOp", 0)>>
    THEN [ok |-> FALSE, block |-> block]
    ELSE [ok |-> TRUE,
          block |-> [block EXCEPT !.instructions[1] = Instr("BranchIfZero", target)]]

\* the locals of lower() before its loop
LowerStart ==
    [blocks |-> <<>>, current_block_instrs |-> <<>>, block_id |-> 0,
     associated_start_block |-> <<>>, panicked |-> FALSE]

\* the StartConditional arm of lower()
LowerStart_Conditional(st, cond_id) ==
    LET this_block_id == st.block_id + 1 IN
    [st EXCEPT
        !.blocks = st.blocks
                   \o <<BasicBlock(st.block_id, st.current_block_instrs),
                        BasicBlock(this_block_id, <<Instr("NoOp", 0)>>)>>,
        !.associated_start_block = (cond_id :> this_block_id) @@ st.associated_start_block,
        !.block_id = st.block_id + 2,
        !.current_block_instrs = <<>>]

\* an EndConditional arm that patches the placeholder before it advances
\* block_id, so that the exit of the loop is the closing block itself
LowerEnd_Conditional_early(st, cond_id) ==
    IF cond_id \notin DOMAIN st.associated_start_block
    THEN [st EXCEPT !.panicked = TRUE]
    ELSE
    LET start_block == st.associated_start_block[cond_id]
        closed == Append(st.blocks,
                         BasicBlock(st.block_id,
                                    Append(st.current_block_instrs,
                                           Instr("BranchTo", start_block))))
        r == replace_noop_with_branch_target(closed[start_block + 1], st.block_id)
    IN  IF ~r.ok THEN [st EXCEPT !.panicked = TRUE]
        ELSE [st EXCEPT
                !.blocks = [closed EXCEPT ![start_block + 1] = r.block],
                !.block_id = st.block_id + 1,
                !.current_block_instrs = <<>>]

\* the EndConditional arm of lower()
LowerEnd_Conditional(st, cond_id) ==
    IF cond_id \notin DOMAIN st.associated_start_block
    THEN [st EXCEPT !.panicked = TRUE]
    ELSE
    LET start_block == st.associated_start_block[cond_id]
        closed == Append(st.blocks,
                         BasicBlock(st.block_id,
                                    Append(st.current_block_instrs,
                                           Instr("BranchTo", start_block))))
        next_id == st.block_id + 1
    IN  IF start_block + 1 \notin DOMAIN closed
        THEN [st EXCEPT !.panicked = TRUE]
        ELSE LET r == replace_noop_with_branch_target(closed[start_block + 1], next_id)
             IN  IF ~r.ok THEN [st EXCEPT !.panicked = TRUE]
                 ELSE [st EXCEPT
                         !.blocks = [closed EXCEPT ![start_block + 1] = r.block],
                         !.block_id = next_id,
                         !.current_block_instrs = <<>>]

\* one iteration of the `for &statement in ast.statements()` loop
LowerStatement(st, statement) ==
    CASE statement.op = "StartConditional" -> LowerStart_Conditional(st, statement.id)
      [] statement.op = "EndConditional"   -> LowerEnd_Conditional(st, statement.id)
      [] OTHER ->
            [st EXCEPT !.current_block_instrs =
                           Append(st.current_block_instrs, try_from(statement))]

RECURSIVE LowerLoop(_, _, _)
LowerLoop(st, statements, i) ==
    IF i > Len(statements) \/ st.panicked THEN st
    ELSE LowerLoop(LowerStatement(st, statements[i]), statements, i + 1)

\* lower(): the blocks of the control-flow graph, and the map from conditional
\* ids to placeholder blocks that the loop built
lower(statements) ==
    LET st == LowerLoop(LowerStart, statements, 1) IN
    IF st.panicked
    THEN [panicked |-> TRUE, blocks |-> <<>>,
          associated_start_block |-> st.associated_start_block]
    ELSE [panicked |-> FALSE,
          blocks |-> Append(st.blocks,
                            BasicBlock(st.block_id,
                                       Append(st.current_block_instrs,
                                              Instr("Terminate", 0)))),
          associated_start_block |-> st.associated_start_block]

(* ------------------------------ optimize.rs ---------------------------- *)

\* LastNonEmptyVector::last
last(v) == v[Len(v)]
\* a replace_last that pushes
replace_last_pushed(v, x) == Append(v, x)

\* LastNonEmptyVector::replace_last
replace_last(v, x) == [v EXCEPT ![Len(v)] = x]

\* an addition that does not wrap at 8 bits
wrapping_add_wide(x, y) == x + y

\* u8::wrapping_add
wrapping_add(x, y) == (x + y) % ByteMod

\* a peephole that coalesces any two adjacent instructions of the same kind
PeepholeStep_samekind(new_instructions, instr) ==
    LET l == last(new_instructions) IN
    IF l.op = "ChangeVal" /\ instr.op = "ChangeVal"
    THEN replace_last(new_instructions, Instr("ChangeVal", wrapping_add(l.arg, instr.arg)))
    ELSE IF l.op = "ChangeAddr" /\ instr.op = "ChangeAddr"
    THEN replace_last(new_instructions, Instr("ChangeAddr", l.arg + instr.arg))
    ELSE IF l.op = instr.op /\ l.op # "NoOp"
    THEN replace_last(new_instructions, instr)
    ELSE Append(new_instructions, instr)

\* one iteration of the loop of peephole_optimize
PeepholeStep(new_instructions, instr) ==
    LET l == last(new_instructions) IN
    IF l.op = "ChangeVal" /\ instr.op = "ChangeVal"
    THEN replace_last(new_instructions, Instr("ChangeVal", wrapping_add(l.arg, instr.arg)))
    ELSE IF l.op = "ChangeAddr" /\ instr.op = "ChangeAddr"
    THEN replace_last(new_instructions, Instr("ChangeAddr", l.arg + instr.arg))
    ELSE Append(new_instructions, instr)

RECURSIVE PeepholeLoop(_, _, _)
PeepholeLoop(new_instructions, instructions, i) ==
    IF i > Len(instructions) THEN new_instructions
    ELSE PeepholeLoop(PeepholeStep(new_instructions, instructions[i]), instructions, i + 1)

\* new_instructions.retain(|instr| !matches!(instr, NoOp))
RetainNonNoOp(v) == SelectSeq(v, LAMBDA x : x.op # "NoOp")

peephole_optimize(instructions) ==
    RetainNonNoOp(PeepholeLoop(<<Instr("NoOp", 0)>>, instructions, 1))

\* optimize(): every block keeps its label and gets its instructions optimized
optimize(blocks) ==
    [i \in DOMAIN blocks |->
        BasicBlock(blocks[i].block_id, peephole_optimize(blocks[i].instructions))]

(* ------------------------------ bytecode.rs ---------------------------- *)

Bytecode(op, arg) == [op |-> op, arg |-> arg]

\* the locals of compile_cfg_to_bytecode before the first pass
CompileStart ==
    [branch_targets |-> <<>>, incomplete_instructions |-> <<>>, code |-> <<>>,
     pc |-> 0, panicked |-> FALSE]

Emit(st, bc) == [st EXCEPT !.code = Append(st.code, bc), !.pc = st.pc + 1]

EmitBranch(st, bc, label) ==
    Emit([st EXCEPT !.incomplete_instructions =
                        Append(st.incomplete_instructions,
                               [site |-> st.pc, label |-> label])],
         bc)

\* the match of the first pass.  ThreeAddressInstruction has no Zero variant
\* and no Zero is in scope, so the arm `Zero => Bytecode::Zero` is a binding
\* that matches every instruction the arms above it did not take: the NoOp
\* and Terminate arms below it are never reached.
CompileInstr(st, instr) ==
    CASE instr.op = "ChangeVal"    -> Emit(st, Bytecode("ChangeVal", instr.arg))
      [] instr.op = "ChangeAddr"   -> Emit(st, Bytecode("ChangeAddr", instr.arg))
      [] instr.op = "PutChar"      -> Emit(st, Bytecode("PrintChar", 0))
      [] instr.op = "GetChar"      -> Emit(st, Bytecode("GetChar", 0))
      [] instr.op = "BranchIfZero" -> EmitBranch(st, Bytecode("BranchIfZero", 0), instr.arg)
      [] instr.op = "BranchTo"     -> EmitBranch(st, Bytecode("BranchTo", 0), instr.arg)
      [] OTHER                     -> Emit(st, Bytecode("Zero", 0))

RECURSIVE CompileInstrs(_, _, _)
CompileInstrs(st, instructions, i) ==
    IF i > Len(instructions) THEN st
    ELSE CompileInstrs(CompileInstr(st, instructions[i]), instructions, i + 1)

\* a first pass that records the offset of a block after emitting the block
CompileBlock_late(st, block) ==
    LET done == CompileInstrs(st, block.instructions, 1)
    IN  [done EXCEPT !.branch_targets = (block.block_id :> done.pc) @@ done.branch_targets]

\* one iteration of the loop over the blocks
CompileBlock(st, block) ==
    CompileInstrs([st EXCEPT !.branch_targets =
                                 (block.block_id :> st.pc) @@ st.branch_targets],
                  block.instructions, 1)

RECURSIVE FirstPass(_, _, _)
FirstPass(st, blocks, i) ==
    IF i > Len(blocks) THEN st
    ELSE FirstPass(CompileBlock(st, blocks[i]), blocks, i + 1)

\* a second pass that resolves a conditional branch to the opcode before the
\* start of the referenced block
PatchSite_short(st, inc) ==
    IF inc.label \notin DOMAIN st.branch_targets
    THEN [st EXCEPT !.panicked = TRUE]
    ELSE LET instr == st.code[inc.site + 1]
             target == st.branch_targets[inc.label]
         IN  IF instr.op = "BranchIfZero"
             THEN [st EXCEPT !.code[inc.site + 1] = Bytecode(instr.op, target - 1)]
             ELSE IF instr.op = "BranchTo"
             THEN [st EXCEPT !.code[inc.site + 1] = Bytecode(instr.op, target)]
             ELSE [st EXCEPT !.panicked = TRUE]

\* one iteration of the second pass
PatchSite(st, inc) ==
    IF inc.label \notin DOMAIN st.branch_targets
    THEN [st EXCEPT !.panicked = TRUE]
    ELSE LET instr == st.code[inc.site + 1]
             target == st.branch_targets[inc.label]
         IN  IF instr.op \in {"BranchIfZero", "BranchTo"}
             THEN [st EXCEPT !.code[inc.site + 1] = Bytecode(instr.op, target)]
             ELSE [st EXCEPT !.panicked = TRUE]

RECURSIVE SecondPass(_, _)
SecondPass(st, i) ==
    IF i > Len(st.incomplete_instructions) \/ st.panicked THEN st
    ELSE SecondPass(PatchSite(st, st.incomplete_instructions[i]), i + 1)

\* compile_cfg_to_bytecode()
compile_cfg_to_bytecode(blocks) ==
    LET st == SecondPass(FirstPass(CompileStart, blocks, 1), 1) IN
    [panicked |-> st.panicked, code |-> st.code, branch_targets |-> st.branch_targets]

\* `address as usize >= universe.len()`: a negative i32 converts to a usize of
\* at least 2^63, which no slice length reaches
AsUsizeGe(address, len) == address < 0 \/ address >= len

\* `getchar() as u8`
AsU8(c) == c % ByteMod

\* values the getchar callback returns (a u32)
InputVals == {0, 1, 257}

\* the locals of run_with_custom_io and what it has done to its arguments
Machine(u, addr, pc, io, st) ==
    [universe |-> u, current_address |-> addr, program_counter |-> pc,
     calls |-> io, status |-> st]

Call(fn, val) == [fn |-> fn, val |-> val]

\* indexing universe[current_address] panics outside the slice
InUniverse(m) == m.current_address < Len(m.universe)
Cell(m) == m.universe[m.current_address + 1]
SetCell(m, v) == [m EXCEPT !.universe[m.current_address + 1] = v]
Advance(m) == [m EXCEPT !.program_counter = m.program_counter + 1]
Panic(m) == [m EXCEPT !.status = "panicked"]

\* a ChangeAddr arm whose upper bound is off by one
ExecChangeAddr_pastend(m, incr) ==
    LET address == m.current_address + incr IN
    IF address < 0 \/ address > Len(m.universe) THEN Panic(m)
    ELSE Advance([m EXCEPT !.current_address = address])

\* the ChangeAddr arm of the interpreter's match
ExecChangeAddr(m, incr) ==
    LET address == m.current_address + incr IN
    IF AsUsizeGe(address, Len(m.universe)) THEN Panic(m)
    ELSE IF address < 0 THEN Panic(m)
    ELSE Advance([m EXCEPT !.current_address = address])

\* one iteration of the `while program_counter < self.bytecode.len()` loop,
\* where c is what getchar returns if it is called
Exec(m, bc, c) ==
    CASE bc.op = "NoOp" -> Advance(m)
      [] bc.op = "ChangeVal" ->
            IF InUniverse(m) THEN Advance(SetCell(m, wrapping_add(bc.arg, Cell(m))))
            ELSE Panic(m)
      [] bc.op = "ChangeAddr" -> ExecChangeAddr(m, bc.arg)
      [] bc.op = "PrintChar" ->
            IF InUniverse(m)
            THEN Advance([m EXCEPT !.calls = Append(m.calls, Call("putchar", Cell(m)))])
            ELSE Panic(m)
      [] bc.op = "GetChar" ->
            IF InUniverse(m)
            THEN Advance(SetCell([m EXCEPT !.calls = Append(m.calls, Call("getchar", c))],
                                 AsU8(c)))
            ELSE [m EXCEPT !.calls = Append(m.calls, Call("getchar", c)),
                           !.status = "panicked"]
      [] bc.op = "BranchIfZero" ->
            IF ~InUniverse(m) THEN Panic(m)
            ELSE IF Cell(m) = 0 THEN [m EXCEPT !.program_counter = bc.arg]
            ELSE Advance(m)
      [] bc.op = "BranchTo" -> [m EXCEPT !.program_counter = bc.arg]
      [] bc.op = "Zero" ->
            IF InUniverse(m) THEN Advance(SetCell(m, 0)) ELSE Panic(m)
      [] bc.op = "Terminate" -> [m EXCEPT !.status = "returned"]

\* CFGs built by hand through ControlFlowGraph::new and BasicBlock::new
HandInstrs ==
    {Instr("ChangeVal", 1), Instr("ChangeVal", ByteMod - 1), Instr("ChangeAddr", 1),
     Instr("ChangeAddr", -1), Instr("PutChar", 0), Instr("GetChar", 0),
     Instr("BranchTo", 0), Instr("NoOp", 0), Instr("Terminate", 0)}

(* --------------------------- asm/aarch64.rs ---------------------------- *)

\* A 32-bit word is the set of the positions (0..31) of its bits that are 1:
\* | is union, & is intersection.

\* bit i (0..30) of the two's complement form of v
Bit(v, i) == (v \div 2^i) % 2

\* v as u32, for v an i32 or a narrower integer
as_u32(v) == {i \in 0..30 : Bit(v, i) = 1} \cup (IF v < 0 THEN {31} ELSE {})

\* word << n on u32: the bits shifted past bit 31 are lost
shl(word, n) == {i + n : i \in {j \in word : j + n <= 31}}

\* the unsigned number in the bits lo..hi of a word
RECURSIVE FieldValue(_, _, _)
FieldValue(word, lo, hi) ==
    IF hi < lo THEN 0
    ELSE (IF lo \in word THEN 1 ELSE 0) + 2 * FieldValue(word, lo + 1, hi)

\* the same bits read as a two's complement number
SignedField(word, lo, hi) ==
    LET v == FieldValue(word, lo, hi)
        width == 1 + hi - lo
    IN  IF v >= 2^(width - 1) THEN v - 2^width ELSE v

\* the operands: X(pub u8), W(pub u8), Imm(pub u8, pub i32), Umm(pub u8, pub u32)
X(n) == [type |-> "X", size |-> 5, value |-> as_u32(n)]
W(n) == [type |-> "W", size |-> 5, value |-> as_u32(n)]
Imm(size, v) == [type |-> "Imm", size |-> size, value |-> as_u32(v)]
Umm(size, word) == [type |-> "Umm", size |-> size, value |-> word]

\* BitPack::to_u32: only Imm is masked to its size
to_u32(operand) ==
    IF operand.type = "Imm"
    THEN operand.value \cap (0..(operand.size - 1))
    ELSE operand.value

expected_size(operand) == operand.size

\* the outcome of a failed assert_eq!
AssertFailed == {-1}

\* BitPack::at(self, start..=end)
at(operand, start, end) ==
    IF 1 + end - start # expected_size(operand)
    THEN AssertFailed
    ELSE shl(to_u32(operand), start)

\* AArch64Assembly::new()
NewAssembly ==
    [instr |-> <<>>, label_targets |-> <<>>, unresolved_branch_targets |-> <<>>,
     panicked |-> FALSE]

\* emit(instruction): instr is kept as a sequence of words, a WordOffset is
\* an index into it counted from 0
emit(a, instruction) == [a EXCEPT !.instr = Append(@, instruction)]

emit_incomplete_branch(a, label, which, partial_instruction) ==
    [emit(a, partial_instruction) EXCEPT !.unresolved_branch_targets =
        Append(@, [source |-> Len(a.instr), instr |-> which, label |-> label])]

set_label_target(a, label) ==
    [a EXCEPT !.label_targets =
        [l \in DOMAIN @ \cup {label} |-> IF l = label THEN Len(a.instr) ELSE @[l]]]

cbz(a, rt, label) == emit_incomplete_branch(a, label, "Cbz", {26, 28, 29} \cup at(rt, 0, 4))
patch_cbz(offset) == at(Imm(19, offset), 5, 23)

b(a, label) == emit_incomplete_branch(a, label, "B", {26, 28})
patch_b(offset) == at(Imm(26, offset), 0, 25)

\* a patch that stores the target offset instead of the displacement
patch_site_absolute(a, site) ==
    IF site.label \notin DOMAIN a.label_targets
    THEN [a EXCEPT !.panicked = TRUE]
    ELSE LET target == a.label_targets[site.label]
             incomplete == a.instr[site.source + 1]
             missing_bits == IF site.instr = "Cbz" THEN patch_cbz(target) ELSE patch_b(target)
         IN  [a EXCEPT !.instr[site.source + 1] = incomplete \cup missing_bits]

\* the body of the loop of patch_branch_targets
patch_site(a, site) ==
    IF site.label \notin DOMAIN a.label_targets
    THEN [a EXCEPT !.panicked = TRUE]
    ELSE LET target == a.label_targets[site.label]
             incomplete == a.instr[site.source + 1]
             offset == target - site.source
             missing_bits == IF site.instr = "Cbz" THEN patch_cbz(offset) ELSE patch_b(offset)
         IN  [a EXCEPT !.instr[site.source + 1] = incomplete \cup missing_bits]

RECURSIVE PatchLoop(_, _)
PatchLoop(a, patch_list) ==
    IF a.panicked \/ patch_list = <<>>
    THEN a
    ELSE PatchLoop(patch_site(a, Head(patch_list)), Tail(patch_list))

patch_branch_targets(a) ==
    LET patched == PatchLoop(a, a.unresolved_branch_targets)
    IN  IF patched.panicked
        THEN patched
        ELSE [patched EXCEPT !.unresolved_branch_targets = <<>>]

\* machine_code() that hands the buffer out whatever is pending
machine_code_unchecked(a) == "Returned"

\* machine_code(): the buffer, or a panic
machine_code(a) ==
    IF Len(a.unresolved_branch_targets) > 0 THEN "Panicked" ELSE "Returned"

blr(a, rn) == emit(a, {16, 17, 18, 19, 20, 21, 25, 26, 28, 30, 31} \cup at(rn, 5, 9))

ret(a) == emit(a, {16, 17, 18, 19, 20, 22, 25, 26, 28, 30, 31} \cup at(X(30), 5, 9))

strb(a, wt, xn, offset) ==
    emit(a, {24, 27, 28, 29} \cup at(wt, 0, 4) \cup at(xn, 5, 9)
              \cup at(Imm(12, offset \div 8), 10, 21))

ldrb(a, wt, xn, offset) ==
    emit(a, {22, 24, 27, 28, 29} \cup at(wt, 0, 4) \cup at(xn, 5, 9)
              \cup at(Imm(12, offset \div 8), 10, 21))

str_imm(a, rt, rn, offset) ==
    emit(a, {24, 27, 28, 29, 30, 31} \cup at(rt, 0, 4) \cup at(rn, 5, 9)
              \cup at(Imm(12, offset \div 8), 10, 21))

ldr_imm(a, rt, rn, offset) ==
    emit(a, {22, 24, 27, 28, 29, 30, 31} \cup at(rt, 0, 4) \cup at(rn, 5, 9)
              \cup at(Imm(12, offset \div 8), 10, 21))

stp_offset_word(rt, rt2, rn, imm) ==
    {24, 27, 29, 31} \cup at(rt, 0, 4) \cup at(rn, 5, 9) \cup at(rt2, 10, 14)
        \cup at(Umm(7, as_u32(imm \div 8)), 15, 21)
stp_offset(a, rt, rt2, rn, imm) == emit(a, stp_offset_word(rt, rt2, rn, imm))

ldp_offset(a, rt, rt2, rn, imm) ==
    emit(a, {22, 24, 27, 29, 31} \cup at(rt, 0, 4) \cup at(rn, 5, 9) \cup at(rt2, 10, 14)
              \cup at(Umm(7, as_u32(imm \div 8)), 15, 21))

ldp_postindex(a, rt1, rt2, rn, imm) ==
    emit(a, {22, 23, 27, 29, 31} \cup at(rt1, 0, 4) \cup at(rn, 5, 9) \cup at(rt2, 10, 14)
              \cup at(Imm(7, imm \div 8), 15, 21))

stp_preindex(a, rt1, rt2, rn, imm) ==
    emit(a, {23, 24, 27, 29, 31} \cup at(rt1, 0, 4) \cup at(rn, 5, 9) \cup at(rt2, 10, 14)
              \cup at(Imm(7, imm \div 8), 15, 21))

add(a, wd, wn, imm) ==
    emit(a, {24, 28} \cup at(Imm(12, imm), 10, 21) \cup at(wn, 5, 9) \cup at(wd, 0, 4))

add64(a, xd, xn, imm) ==
    emit(a, {24, 28, 31} \cup at(Imm(12, imm), 10, 21) \cup at(xn, 5, 9) \cup at(xd, 0, 4))

mov(a, rd, rm) ==
    emit(a, {25, 27, 29, 31} \cup at(rm, 16, 20) \cup at(X(31), 5, 9) \cup at(rd, 0, 4))

sub(a, wd, wn, imm) ==
    emit(a, {24, 28, 30} \cup at(Imm(12, imm), 10, 21) \cup at(wn, 5, 9) \cup at(wd, 0, 4))

sub64(a, xd, xn, imm) ==
    emit(a, {24, 28, 30, 31} \cup at(Imm(12, imm), 10, 21) \cup at(xn, 5, 9) \cup at(xd, 0, 4))

(* ------------------------------- main.rs ------------------------------- *)

\* one byte of the closure of main.rs's parse(); BranchStack::next and pop
\* are ConditionalStack's, a ']' without a '[' sets HACK_too_many_branches
MainParseByte(st, byte) ==
    CASE byte = "+" -> Push(st, Instr("ChangeVal", 1))
      [] byte = "-" -> Push(st, Instr("ChangeVal", -1))
      [] byte = ">" -> Push(st, Instr("ChangeAddr", 1))
      [] byte = "<" -> Push(st, Instr("ChangeAddr", -1))
      [] byte = "." -> Push(st, Instr("PrintChar", 0))
      [] byte = "," -> Push(st, Instr("GetChar", 0))
      [] byte = "[" -> Push(StackNext(st), Instr("StartBranch", st.next_id))
      [] byte = "]" ->
            IF st.stack = <<>>
            THEN [st EXCEPT !.reason = TooManyCloseBrackets]
            ELSE Push(StackPop(st), Instr("EndBranch", st.stack[Len(st.stack)]))
      [] OTHER -> st

RECURSIVE MainParseLoop(_, _, _)
MainParseLoop(st, text, i) ==
    IF i > Len(text) THEN st
    ELSE MainParseLoop(MainParseByte(st, text[i]), text, i + 1)

\* main.rs parse(): Ok(program) or Err(TooManyCloseBrackets)
main_parse(text) ==
    LET st == MainParseLoop(ParseStart, text, 1)
    IN  [ok |-> st.reason # TooManyCloseBrackets, program |-> st.statements]

\* find_end_branch_target: pc of the instruction after the first
\* EndBranch(start) at or after pc, as a 0-based index; -1 for a panic
find_end_branch_target(start, prog, pc) ==
    LET ends == {j \in (pc + 1)..Len(prog) : prog[j] = Instr("EndBranch", start)}
        increment == IF ends = {} THEN Len(prog) - pc
                     ELSE (CHOOSE j \in ends : \A k \in ends : j <= k) - 1 - pc
    IN  IF increment <= 0 \/ pc + increment >= Len(prog) THEN -1
        ELSE pc + increment + 1

\* find_start_branch_target: the index of the last StartBranch(end) before
\* pc; -1 for a panic
find_start_branch_target(end, prog, pc) ==
    LET starts == {j \in 1..pc : prog[j] = Instr("StartBranch", end)}
    IN  IF starts = {} THEN -1
        ELSE (CHOOSE j \in starts : \A k \in starts : j >= k) - 1

JumpTo(m, target) ==
    IF target < 0 THEN Panic(m) ELSE [m EXCEPT !.program_counter = target]

\* one iteration of the loop of main.rs's interpret(), on a universe of the
\* length the bytecode interpreter is given; c is the byte read from stdin
interpret(m, prog, c) ==
    LET instr == prog[m.program_counter + 1] IN
    CASE instr.op = "NoOp" -> Advance(m)
      [] instr.op = "ChangeVal" ->
            Advance(SetCell(m, wrapping_add(Cell(m), instr.arg % ByteMod)))
      [] instr.op = "ChangeAddr" -> ExecChangeAddr(m, instr.arg)
      [] instr.op = "PrintChar" ->
            Advance([m EXCEPT !.calls = Append(m.calls, Call("putchar", Cell(m)))])
      [] instr.op = "GetChar" ->
            Advance(SetCell([m EXCEPT !.calls = Append(m.calls, Call("getchar", c))],
                            AsU8(c)))
      [] instr.op = "StartBranch" ->
            IF Cell(m) = 0
            THEN JumpTo(m, find_end_branch_target(instr.arg, prog, m.program_counter))
            ELSE Advance(m)
      [] instr.op = "EndBranch" ->
            JumpTo(m, find_start_branch_target(instr.arg, prog, m.program_counter))

(* ------------------------------ codegen.rs ----------------------------- *)

\* the registers of the generated function
ADDR == X(19)
GETCHAR == X(20)
PUTCHAR == X(21)
VAL == W(0)
FP == X(29)
LR == X(30)
SP == X(31)

\* the casts of generate_instructions
as_u16(v) == v % 65536
as_i8(v) == IF v % 256 >= 128 THEN (v % 256) - 256 ELSE v % 256
\* -(x as i8) without overflow checks: -(-128) wraps to -128
neg_i8(v) == IF v = -128 THEN -128 ELSE -v
\* -(x as i8) with overflow checks panics for -128
NegOverflows(v, overflow_checks) == overflow_checks /\ v = -128

setup_stack_and_save_registers(a) ==
    LET a1 == stp_preindex(a, PUTCHAR, GETCHAR, SP, -48)
        a2 == stp_offset(a1, FP, LR, SP, 32)
        a3 == str_imm(a2, ADDR, SP, 16)
        a4 == add64(a3, FP, SP, 32)
        a5 == mov(a4, ADDR, X(0))
        a6 == mov(a5, PUTCHAR, X(1))
    IN  mov(a6, GETCHAR, X(2))

\* an epilogue that reloads x19 from the unused slot of the frame
restore_stack_and_registers_and_return_wrong_slot(a) ==
    LET a1 == ldr_imm(a, ADDR, SP, 24)
        a2 == ldp_offset(a1, FP, LR, SP, 32)
        a3 == ldp_postindex(a2, PUTCHAR, GETCHAR, SP, 48)
    IN  ret(a3)

restore_stack_and_registers_and_return(a) ==
    LET a1 == ldr_imm(a, ADDR, SP, 16)
        a2 == ldp_offset(a1, FP, LR, SP, 32)
        a3 == ldp_postindex(a2, PUTCHAR, GETCHAR, SP, 48)
    IN  ret(a3)

\* the ChangeVal arm of generate_instructions
generate_ChangeVal(a, x, overflow_checks) ==
    LET a1 == ldrb(a, VAL, ADDR, 0)
        a2 == IF as_i8(x) >= 0
              THEN add(a1, VAL, VAL, as_u16(x))
              ELSE sub(a1, VAL, VAL, as_u16(neg_i8(as_i8(x))))
    IN  IF as_i8(x) < 0 /\ NegOverflows(as_i8(x), overflow_checks)
        THEN [a1 EXCEPT !.panicked = TRUE]
        ELSE strb(a2, VAL, ADDR, 0)

generate_instructions(a, instr, overflow_checks) ==
    CASE instr.op = "NoOp" -> a
      [] instr.op = "ChangeAddr" ->
            IF instr.arg = 0 THEN a
            ELSE IF instr.arg >= 0 THEN add64(a, ADDR, ADDR, as_u16(instr.arg))
            ELSE sub64(a, ADDR, ADDR, as_u16(-instr.arg))
      [] instr.op = "ChangeVal" -> generate_ChangeVal(a, instr.arg, overflow_checks)
      [] instr.op = "PutChar" -> blr(ldrb(a, VAL, ADDR, 0), PUTCHAR)
      [] instr.op = "GetChar" -> strb(blr(a, GETCHAR), VAL, ADDR, 0)
      [] instr.op = "BranchIfZero" -> cbz(ldrb(a, VAL, ADDR, 0), VAL, instr.arg)
      [] instr.op = "BranchTo" -> b(a, instr.arg)
      [] instr.op = "Terminate" -> restore_stack_and_registers_and_return(a)

RECURSIVE GenerateInstrs(_, _, _, _)
GenerateInstrs(a, instructions, i, overflow_checks) ==
    IF i > Len(instructions) \/ a.panicked THEN a
    ELSE GenerateInstrs(generate_instructions(a, instructions[i], overflow_checks),
                        instructions, i + 1, overflow_checks)

RECURSIVE GenerateBlocks(_, _, _, _)
GenerateBlocks(a, blocks, i, overflow_checks) ==
    IF i > Len(blocks) \/ a.panicked THEN a
    ELSE GenerateBlocks(
            GenerateInstrs(set_label_target(a, blocks[i].block_id),
                           blocks[i].instructions, 1, overflow_checks),
            blocks, i + 1, overflow_checks)

generate_code(a, blocks, overflow_checks) ==
    LET generated == GenerateBlocks(a, blocks, 1, overflow_checks)
    IN  IF generated.panicked THEN generated ELSE patch_branch_targets(generated)

\* ControlFlowGraph::last_instruction is Some(Terminate); an empty last block
\* gives None or an arithmetic panic, and the assert fails on both
LastIsTerminate(blocks) ==
    /\ blocks # <<>>
    /\ blocks[Len(blocks)].instructions # <<>>
    /\ last(blocks[Len(blocks)].instructions) = Instr("Terminate", 0)

\* a compile() without the assert on the last instruction
codegen_compile_unasserted(blocks, overflow_checks) ==
    LET a == generate_code(setup_stack_and_save_registers(NewAssembly), blocks,
                           overflow_checks)
    IN  IF a.panicked \/ machine_code(a) = "Panicked"
        THEN [panicked |-> TRUE, code |-> <<>>]
        ELSE [panicked |-> FALSE, code |-> a.instr]

\* CodeGenerator::new() and compile(cfg), in a build with or without
\* overflow checks
codegen_compile(blocks, overflow_checks) ==
    LET a == generate_code(setup_stack_and_save_registers(NewAssembly), blocks,
                           overflow_checks)
    IN  IF a.panicked \/ ~LastIsTerminate(blocks) \/ machine_code(a) = "Panicked"
        THEN [panicked |-> TRUE, code |-> <<>>]
        ELSE [panicked |-> FALSE, code |-> a.instr]

(* ------------------- the processor running the code -------------------- *)

\* What the caller of the generated function passes and expects back: the
\* tape pointer and the two callbacks in x0, x1, x2, the return address in
\* x30, and its own values in the callee-saved registers and sp.
Hosts ==
    {[tape |-> 4096, putchar |-> 16, getchar |-> 32, code |-> 65536, sp |-> 8192,
      x19 |-> h[1], x20 |-> h[2], x21 |-> h[3], x29 |-> h[4], x30 |-> 48] :
        h \in {<<19, 20, 21, 29>>, <<5, 5, 6, 7>>}}

\* the registers the model follows; 31 is sp or the zero register
CpuRegs == {0, 1, 2, 19, 20, 21, 29, 30}
\* what a register or a stack slot holds before anything was written to it
Junk == -1
\* what a callee may leave in the registers it need not preserve
Clobbers == {0, 77}

\* the 64-bit slots of the stack that belong to the callee: 48 bytes below
\* the caller's sp would be enough for the frame, one more slot is followed
\* on each side
StackSlots(host) == {host.sp - 56 + 8 * k : k \in 0..7}

Entered(code, host, len) ==
    [status |-> "running", code |-> code, pc |-> 0, host |-> host,
     x |-> [r \in CpuRegs |->
              CASE r = 0 -> host.tape [] r = 1 -> host.putchar [] r = 2 -> host.getchar
                [] r = 19 -> host.x19 [] r = 20 -> host.x20 [] r = 21 -> host.x21
                [] r = 29 -> host.x29 [] r = 30 -> host.x30],
     sp |-> host.sp,
     stack |-> [s \in StackSlots(host) |-> Junk],
     written |-> {},
     tape |-> [i \in 1..len |-> 0],
     calls |-> <<>>]

Fault(c) == [c EXCEPT !.status = "fault"]
Next1(c) == [c EXCEPT !.pc = c.pc + 1]

\* Xn|SP: register 31 is the stack pointer
BaseReg(c, n) == IF n = 31 THEN c.sp ELSE c.x[n]
SetBaseReg(c, n, v) == IF n = 31 THEN [c EXCEPT !.sp = v] ELSE [c EXCEPT !.x[n] = v]
KnownBase(n) == n \in CpuRegs \cup {31}

\* stores to the stack above the caller's sp destroy the caller's frame
Store64(c, addr, v) ==
    IF addr \in DOMAIN c.stack /\ addr < c.host.sp
    THEN [c EXCEPT !.stack[addr] = v, !.written = @ \cup {addr}]
    ELSE Fault(c)
CanLoad64(c, addr) == addr \in DOMAIN c.stack
TapeIndex(c, addr) == addr - c.host.tape + 1
OnTape(c, addr) == TapeIndex(c, addr) \in DOMAIN c.tape

\* STP/LDP Xt, Xt2, [Xn|SP, #imm] with or without writeback
ExecPair(c, word, load, pre, post) ==
    LET rt == FieldValue(word, 0, 4)
        rn == FieldValue(word, 5, 9)
        rt2 == FieldValue(word, 10, 14)
        imm == 8 * SignedField(word, 15, 21)
    IN  IF ~KnownBase(rn) \/ rt \notin CpuRegs \/ rt2 \notin CpuRegs THEN Fault(c)
        ELSE LET addr == IF post THEN BaseReg(c, rn) ELSE BaseReg(c, rn) + imm
                 moved == IF load
                          THEN IF CanLoad64(c, addr) /\ CanLoad64(c, addr + 8)
                               THEN [c EXCEPT !.x[rt] = c.stack[addr],
                                              !.x[rt2] = c.stack[addr + 8]]
                               ELSE Fault(c)
                          ELSE Store64(Store64(c, addr, c.x[rt]), addr + 8, c.x[rt2])
             IN  IF moved.status = "fault" THEN moved
                 ELSE IF pre \/ post
                 THEN Next1(SetBaseReg(moved, rn, BaseReg(c, rn) + imm))
                 ELSE Next1(moved)

\* STR/LDR Xt, [Xn|SP, #imm12 * 8]
ExecWord64(c, word, load) ==
    LET rt == FieldValue(word, 0, 4)
        rn == FieldValue(word, 5, 9)
        addr == BaseReg(c, rn) + 8 * FieldValue(word, 10, 21)
    IN  IF ~KnownBase(rn) \/ rt \notin CpuRegs THEN Fault(c)
        ELSE IF load
        THEN IF CanLoad64(c, addr) THEN Next1([c EXCEPT !.x[rt] = c.stack[addr]])
             ELSE Fault(c)
        ELSE LET stored == Store64(c, addr, c.x[rt])
             IN  IF stored.status = "fault" THEN stored ELSE Next1(stored)

\* STRB/LDRB Wt, [Xn|SP, #imm12]: a byte of the tape; anywhere else the
\* access is outside the memory the function was given
ExecByte(c, word, load) ==
    LET rt == FieldValue(word, 0, 4)
        rn == FieldValue(word, 5, 9)
        addr == BaseReg(c, rn) + FieldValue(word, 10, 21)
    IN  IF ~KnownBase(rn) \/ rt \notin CpuRegs \/ ~OnTape(c, addr) THEN Fault(c)
        ELSE IF load
        THEN Next1([c EXCEPT !.x[rt] = c.tape[TapeIndex(c, addr)]])
        ELSE Next1([c EXCEPT !.tape[TapeIndex(c, addr)] = c.x[rt] % 256])

\* ADD/SUB Rd|SP, Rn|SP, #imm12; a W result is kept as a signed number
ExecAddSub(c, word, negate) ==
    LET rd == FieldValue(word, 0, 4)
        rn == FieldValue(word, 5, 9)
        imm == FieldValue(word, 10, 21)
    IN  IF ~KnownBase(rn) \/ ~KnownBase(rd) THEN Fault(c)
        ELSE Next1(SetBaseReg(c, rd, BaseReg(c, rn) + (IF negate THEN -imm ELSE imm)))

\* MOV Xd, Xm, that is ORR Xd, XZR, Xm
ExecMov(c, word) ==
    LET rd == FieldValue(word, 0, 4)
        rm == FieldValue(word, 16, 20)
    IN  IF rd \notin CpuRegs \/ rm \notin CpuRegs THEN Fault(c)
        ELSE Next1([c EXCEPT !.x[rd] = c.x[rm]])

\* CBZ Wt, label
ExecCbz(c, word) ==
    LET rt == FieldValue(word, 0, 4)
    IN  IF rt \notin CpuRegs THEN Fault(c)
        ELSE IF c.x[rt] = 0 THEN [c EXCEPT !.pc = c.pc + SignedField(word, 5, 23)]
        ELSE Next1(c)

\* BLR Xn: x30 gets the return address; the callee is one of the callbacks,
\* preserves x19-x29 and sp, and returns to x30
ExecBlr(c, word, input, clobber) ==
    LET rn == FieldValue(word, 5, 9)
        back == c.host.code + 4 * (c.pc + 1)
        called(fn, arg, result) ==
            Next1([c EXCEPT !.calls = Append(@, Call(fn, arg)),
                            !.x[0] = result, !.x[1] = clobber, !.x[2] = clobber,
                            !.x[30] = back])
    IN  IF rn \notin CpuRegs THEN Fault(c)
        ELSE IF c.x[rn] = c.host.putchar THEN called("putchar", c.x[0], 1)
        ELSE IF c.x[rn] = c.host.getchar THEN called("getchar", input, input)
        ELSE Fault(c)

\* RET Xn
ExecRet(c, word) ==
    LET rn == FieldValue(word, 5, 9)
    IN  IF rn \notin CpuRegs THEN Fault(c)
        ELSE IF c.x[rn] = c.host.x30 THEN [c EXCEPT !.status = "returned"]
        ELSE [c EXCEPT !.status = "lost"]

IsBlr(word) == word \ (5..9) = {16, 17, 18, 19, 20, 21, 25, 26, 28, 30, 31}

\* one instruction, decoded as the A64 instruction set defines it
NativeExec(c, input, clobber) ==
    LET word == c.code[c.pc + 1]
        top == word \cap (22..31)
    IN  CASE top = {23, 24, 27, 29, 31} -> ExecPair(c, word, FALSE, TRUE, FALSE)
          [] top = {24, 27, 29, 31} -> ExecPair(c, word, FALSE, FALSE, FALSE)
          [] top = {22, 24, 27, 29, 31} -> ExecPair(c, word, TRUE, FALSE, FALSE)
          [] top = {22, 23, 27, 29, 31} -> ExecPair(c, word, TRUE, FALSE, TRUE)
          [] top = {24, 27, 28, 29, 30, 31} -> ExecWord64(c, word, FALSE)
          [] top = {22, 24, 27, 28, 29, 30, 31} -> ExecWord64(c, word, TRUE)
          [] top = {24, 27, 28, 29} -> ExecByte(c, word, FALSE)
          [] top = {22, 24, 27, 28, 29} -> ExecByte(c, word, TRUE)
          [] top \in {{24, 28}, {24, 28, 31}} -> ExecAddSub(c, word, FALSE)
          [] top \in {{24, 28, 30}, {24, 28, 30, 31}} -> ExecAddSub(c, word, TRUE)
          [] word \ ((0..4) \cup (16..20)) = {5, 6, 7, 8, 9, 25, 27, 29, 31} -> ExecMov(c, word)
          [] word \cap (24..31) = {26, 28, 29} -> ExecCbz(c, word)
          [] word \cap (26..31) = {26, 28} ->
                [c EXCEPT !.pc = c.pc + SignedField(word, 0, 25)]
          [] IsBlr(word) -> ExecBlr(c, word, input, clobber)
          [] word \ (5..9) = {16, 17, 18, 19, 20, 22, 25, 26, 28, 30, 31} -> ExecRet(c, word)
          [] OTHER -> Fault(c)

(* ---------------- mapped_region.rs, writable_region.rs ---------------- *)

MaxRegions == 2

PROT_READ == "R"
PROT_WRITE == "W"
PROT_EXEC == "X"

\* a mapping that was never asked for
NoRegion ==
    [allocated |-> FALSE, mapped |-> FALSE, prot |-> {}, handles |-> {},
     mmaps |-> 0, munmaps |-> 0, to_writable |-> 0, to_executable |-> 0, result |-> "none",
     access |-> [kind |-> "none", handle |-> "none", permitted |-> TRUE]]

\* mmap(null, size, 0, MAP_PRIVATE | MAP_ANON | MAP_JIT, -1, 0): the only
\* handle is a MappedRegion, the protection is none
allocate(reg, ok) ==
    IF ok
    THEN [reg EXCEPT !.allocated = TRUE, !.mapped = TRUE, !.prot = {},
                     !.mmaps = @ + 1, !.handles = {"MappedRegion"}, !.result = "Ok"]
    ELSE [reg EXCEPT !.allocated = TRUE, !.result = "Internal"]

\* a protection change that adds the new rights to the old ones
mprotect_or(reg, prot) == [reg EXCEPT !.prot = @ \cup prot]

\* libc::mprotect(addr, len, prot) returning 0
mprotect(reg, prot) == [reg EXCEPT !.prot = prot]

\* a drop that forgets the handle and keeps the mapping
drop_leak(reg, h) == [reg EXCEPT !.handles = @ \ {h}]

\* Drop for MappedRegion, also run for the region owned by a WritableRegion or
\* an ExecutableRegion: munmap(addr, len), return value unchecked
drop(reg, h) ==
    [reg EXCEPT !.handles = @ \ {h}, !.mapped = FALSE, !.munmaps = @ + 1]

\* a conversion that leaves the old handle usable
wrap_copy(reg, from, to) == [reg EXCEPT !.handles = @ \cup {to}, !.result = "Ok"]

\* Ok(Self { region }): the region is moved into the new handle
wrap(reg, from, to) ==
    [reg EXCEPT !.handles = (@ \ {from}) \cup {to}, !.result = "Ok"]

\* WritableRegion::from(region), region being owned by the handle h
WritableRegion_from(reg, h, ok) ==
    IF ok
    THEN [wrap(mprotect(reg, {PROT_READ, PROT_WRITE}), h, "WritableRegion")
            EXCEPT !.to_writable = @ + 1]
    ELSE [drop(reg, h) EXCEPT !.result = "Internal"]

\* ExecutableRegion::from(region), region being owned by the handle h
ExecutableRegion_from(reg, h, ok) ==
    IF ok
    THEN [wrap(mprotect(reg, {PROT_READ, PROT_EXEC}), h, "ExecutableRegion")
            EXCEPT !.to_executable = @ + 1]
    ELSE [drop(reg, h) EXCEPT !.result = "Internal"]

\* the handles that implement Index and Borrow<[u8]>: MappedRegion and
\* WritableRegion; an ExecutableRegion offers addr() only
IndexHandles == {"MappedRegion", "WritableRegion"}
\* the handles that implement IndexMut and BorrowMut<[u8]>
IndexMutHandles == {"WritableRegion"}

\* region[i] or region.borrow(): a load from the mapping, which the
\* processor permits if the protection has PROT_READ and answers with
\* SIGSEGV otherwise
index(reg, h) ==
    [reg EXCEPT !.access = [kind |-> "read", handle |-> h,
                            permitted |-> PROT_READ \in reg.prot]]

\* region[i] = b or region.borrow_mut(): a store to the mapping
index_mut(reg, h) ==
    [reg EXCEPT !.access = [kind |-> "write", handle |-> h,
                            permitted |-> PROT_WRITE \in reg.prot]]

(* ------------------------------- state --------------------------------- *)

VARIABLES
    stage,      \* how far the pipeline has got for this source
    source,     \* the source text
    ast,        \* the result of parse()
    cfg,        \* the result of lower()
    opt,        \* the blocks of the optimized control-flow graph
    opt2,       \* the blocks after a second optimize()
    program,    \* the result of compile_cfg_to_bytecode()
    machine,    \* the interpreter: tape, pointer, program counter, callbacks made
    regions,    \* the memory mappings: protection, live handles, munmap calls
    assembly,   \* the assembler, its last operation and what machine_code() gave
    packed,     \* the last operand packed into a word and the word it gave
    cpu,        \* the processor running the emitted code
    probe,      \* the last call of last_instruction and what it gave
    naive,      \* the bytecode of the CFG as lower() left it, and its interpreter
    direct      \* the instruction list of main.rs and its interpreter

pipeline == <<stage, source, ast, cfg, opt, opt2, program, machine>>
extras == <<probe, naive, direct>>
others == <<regions, assembly, packed, cpu, extras>>
vars == <<pipeline, others>>

\* an assembler nobody has called yet; patched_len is the length of instr at
\* the last patch_branch_targets
NoAssembly ==
    [a |-> NewAssembly, op |-> "new", result |-> "none", patched_len |-> 0]

NoResult == [ok |-> FALSE, statements |-> <<>>, reason |-> "", line_no |-> 0]
NoCfg == [panicked |-> FALSE, blocks |-> <<>>, associated_start_block |-> <<>>]
NoProgram == [panicked |-> FALSE, code |-> <<>>, branch_targets |-> <<>>]
\* a zeroed universe, not yet handed to the interpreter
Idle == Machine([i \in 1..TapeLen |-> 0], 0, 0, <<>>, "idle")

\* nothing packed yet
NoPacked == [op |-> "none", operand |-> X(0), start |-> 0, end |-> 4, word |-> {}]
\* a processor that has not been started
NoCpu == [Entered(<<>>, CHOOSE host \in Hosts : TRUE, TapeLen) EXCEPT !.status = "idle"]

\* last_instruction not called yet
NoProbe == [instructions |-> <<>>, result |-> [kind |-> "none"]]
\* no bytecode of the unoptimized CFG yet
NoNaive == [program |-> NoProgram, machine |-> Idle]
\* main.rs has parsed nothing yet
NoDirect == [program |-> <<>>, machine |-> Idle]

OthersIdle ==
    /\ regions = [r \in 1..MaxRegions |-> NoRegion]
    /\ assembly = NoAssembly
    /\ packed = NoPacked
    /\ cpu = NoCpu
    /\ probe = NoProbe
    /\ naive = NoNaive
    /\ direct = NoDirect

PipelineIdle ==
    /\ stage = "source"
    /\ source = <<>>
    /\ ast = NoResult
    /\ cfg = NoCfg
    /\ opt = <<>>
    /\ opt2 = <<>>
    /\ program = NoProgram
    /\ machine = Idle

InitWith(sources) ==
    /\ stage = "source"
    /\ source \in sources
    /\ ast = NoResult
    /\ cfg = NoCfg
    /\ opt = <<>>
    /\ opt2 = <<>>
    /\ program = NoProgram
    /\ machine = Idle
    /\ OthersIdle

Init == InitWith(SourcesOver(Bytes, MaxLen))

\* parse(filename, source_text)
Parse ==
    /\ stage = "source"
    /\ ast' = parse(source)
    /\ stage' = IF ast'.ok THEN "parsed" ELSE "rejected"
    /\ UNCHANGED <<source, cfg, opt, opt2, program, machine>>
    /\ UNCHANGED others

\* ir::lower(&ast)
Lower ==
    /\ stage = "parsed"
    /\ cfg' = lower(ast.statements)
    /\ stage' = IF cfg'.panicked THEN "panicked" ELSE "lowered"
    /\ UNCHANGED <<source, ast, opt, opt2, program, machine>>
    /\ UNCHANGED others

\* optimize::optimize(&initial_cfg)
Optimize ==
    /\ stage = "lowered"
    /\ opt' = optimize(cfg.blocks)
    /\ stage' = "optimized"
    /\ UNCHANGED <<source, ast, cfg, opt2, program, machine>>
    /\ UNCHANGED others

\* InterpretedProgram::new(&cfg)
Compile ==
    /\ stage = "optimized"
    /\ program' = compile_cfg_to_bytecode(opt)
    /\ stage' = IF program'.panicked THEN "panicked" ELSE "compiled"
    /\ UNCHANGED <<source, ast, cfg, opt, opt2, machine>>
    /\ UNCHANGED others

Next == Parse \/ Lower \/ Optimize \/ Compile

Spec == Init /\ [][Next]_vars

(* ------------------------- running the bytecode ------------------------ *)

InitRun == InitWith(SourcesOver(InstrBytes, MaxRunLen))

\* entry of run_with_custom_io: current_address = 0, program_counter = 0
Run ==
    /\ stage = "compiled"
    /\ machine.status = "idle"
    /\ machine' = [machine EXCEPT !.status = "running"]
    /\ UNCHANGED <<stage, source, ast, cfg, opt, opt2, program>>
    /\ UNCHANGED others

IsCallback(bc) == bc.op \in {"PrintChar", "GetChar"}

\* one turn of the interpreter loop
Step ==
    /\ machine.status = "running"
    /\ machine.program_counter < Len(program.code)
    /\ LET bc == program.code[machine.program_counter + 1] IN
       /\ IsCallback(bc) => Len(machine.calls) < MaxCalls
       /\ \E c \in (IF bc.op = "GetChar" THEN InputVals ELSE {0}) :
             machine' = Exec(machine, bc, c)
    /\ UNCHANGED <<stage, source, ast, cfg, opt, opt2, program>>
    /\ UNCHANGED others

\* the loop condition fails: run_with_custom_io returns
FallOff ==
    /\ machine.status = "running"
    /\ machine.program_counter >= Len(program.code)
    /\ machine' = [machine EXCEPT !.status = "returned"]
    /\ UNCHANGED <<stage, source, ast, cfg, opt, opt2, program>>
    /\ UNCHANGED others

NextRun == Next \/ Run \/ Step \/ FallOff

SpecRun == InitRun /\ [][NextRun]_vars

(* ----------------------- optimize() on any block ----------------------- *)

HandBlocks ==
    {<<BasicBlock(0, is)>> : is \in SourcesOver(HandInstrs, MaxInstrs)}

InitOpt ==
    /\ stage = "lowered"
    /\ source = <<>>
    /\ ast = NoResult
    /\ cfg \in {[panicked |-> FALSE, blocks |-> bs, associated_start_block |-> <<>>] :
                  bs \in HandBlocks}
    /\ opt = <<>>
    /\ opt2 = <<>>
    /\ program = NoProgram
    /\ machine = Idle
    /\ OthersIdle

\* optimize() applied to its own result
OptimizeAgain ==
    /\ stage = "optimized"
    /\ opt2' = optimize(opt)
    /\ stage' = "reoptimized"
    /\ UNCHANGED <<source, ast, cfg, opt, program, machine>>
    /\ UNCHANGED others

NextOpt == Optimize \/ OptimizeAgain

SpecOpt == InitOpt /\ [][NextOpt]_vars

(* --------------------------- memory mappings --------------------------- *)

InitMem == PipelineIdle /\ OthersIdle

\* MappedRegion::allocate(size)
Allocate ==
    \E r \in 1..MaxRegions, ok \in BOOLEAN :
        /\ ~regions[r].allocated
        /\ regions' = [regions EXCEPT ![r] = allocate(@, ok)]
        /\ UNCHANGED <<pipeline, extras, assembly, packed, cpu>>

\* WritableRegion::allocate(size): allocate, then WritableRegion::from
WritableAllocate ==
    \E r \in 1..MaxRegions, ok1 \in BOOLEAN, ok2 \in BOOLEAN :
        /\ ~regions[r].allocated
        /\ regions' = [regions EXCEPT ![r] =
                IF ok1 THEN WritableRegion_from(allocate(@, TRUE), "MappedRegion", ok2)
                       ELSE allocate(@, FALSE)]
        /\ UNCHANGED <<pipeline, extras, assembly, packed, cpu>>

\* MappedRegion::into_writable(self), or WritableRegion::from(region)
IntoWritable ==
    \E r \in 1..MaxRegions, ok \in BOOLEAN :
        /\ "MappedRegion" \in regions[r].handles
        /\ regions' = [regions EXCEPT ![r] = WritableRegion_from(@, "MappedRegion", ok)]
        /\ UNCHANGED <<pipeline, extras, assembly, packed, cpu>>

\* WritableRegion::into_executable(self)
IntoExecutable ==
    \E r \in 1..MaxRegions, ok \in BOOLEAN :
        /\ "WritableRegion" \in regions[r].handles
        /\ regions' = [regions EXCEPT ![r] = ExecutableRegion_from(@, "WritableRegion", ok)]
        /\ UNCHANGED <<pipeline, extras, assembly, packed, cpu>>

\* ExecutableRegion::from(region) called on a MappedRegion
ExecutableFrom ==
    \E r \in 1..MaxRegions, ok \in BOOLEAN :
        /\ "MappedRegion" \in regions[r].handles
        /\ regions' = [regions EXCEPT ![r] = ExecutableRegion_from(@, "MappedRegion", ok)]
        /\ UNCHANGED <<pipeline, extras, assembly, packed, cpu>>

\* a handle of any kind goes out of scope
Drop ==
    \E r \in 1..MaxRegions :
        \E h \in regions[r].handles :
            /\ regions' = [regions EXCEPT ![r] = drop(@, h)]
            /\ UNCHANGED <<pipeline, extras, assembly, packed, cpu>>

NextMem ==
    Allocate \/ WritableAllocate \/ IntoWritable \/ IntoExecutable \/ ExecutableFrom \/ Drop

SpecMem == InitMem /\ [][NextMem]_vars

(* ------------------------ access to the mappings ----------------------- *)

\* a byte or a slice is read through a handle that implements Index
Read ==
    \E r \in 1..MaxRegions :
        \E h \in regions[r].handles \cap IndexHandles :
            /\ regions' = [regions EXCEPT ![r] = index(@, h)]
            /\ UNCHANGED <<pipeline, extras, assembly, packed, cpu>>

\* a byte or a slice is written through a handle that implements IndexMut
Write ==
    \E r \in 1..MaxRegions :
        \E h \in regions[r].handles \cap IndexMutHandles :
            /\ regions' = [regions EXCEPT ![r] = index_mut(@, h)]
            /\ UNCHANGED <<pipeline, extras, assembly, packed, cpu>>

NextAccess == NextMem \/ Read \/ Write

SpecAccess == InitMem /\ [][NextAccess]_vars

(* ----------------------------- the assembler --------------------------- *)

MaxWords == 3
AsmLabels == {0, 1}

InitAsm == PipelineIdle /\ OthersIdle

Called(a, op) == [assembly EXCEPT !.a = a, !.op = op, !.result = "none"]

\* an instruction that is no branch
EmitRet ==
    /\ ~assembly.a.panicked
    /\ Len(assembly.a.instr) < MaxWords
    /\ assembly' = Called(ret(assembly.a), "ret")
    /\ UNCHANGED <<pipeline, extras, regions, packed, cpu>>

EmitCbz ==
    /\ ~assembly.a.panicked
    /\ Len(assembly.a.instr) < MaxWords
    /\ \E label \in AsmLabels : assembly' = Called(cbz(assembly.a, VAL, label), "cbz")
    /\ UNCHANGED <<pipeline, extras, regions, packed, cpu>>

EmitB ==
    /\ ~assembly.a.panicked
    /\ Len(assembly.a.instr) < MaxWords
    /\ \E label \in AsmLabels : assembly' = Called(b(assembly.a, label), "b")
    /\ UNCHANGED <<pipeline, extras, regions, packed, cpu>>

SetLabelTarget ==
    /\ ~assembly.a.panicked
    /\ \E label \in AsmLabels :
          assembly' = Called(set_label_target(assembly.a, label), "set_label_target")
    /\ UNCHANGED <<pipeline, extras, regions, packed, cpu>>

PatchBranchTargets ==
    /\ ~assembly.a.panicked
    /\ assembly' = [Called(patch_branch_targets(assembly.a), "patch_branch_targets")
                      EXCEPT !.patched_len = Len(assembly.a.instr)]
    /\ UNCHANGED <<pipeline, extras, regions, packed, cpu>>

MachineCode ==
    /\ ~assembly.a.panicked
    /\ assembly' = [assembly EXCEPT !.op = "machine_code",
                                    !.result = machine_code(assembly.a)]
    /\ UNCHANGED <<pipeline, extras, regions, packed, cpu>>

NextAsm ==
    EmitRet \/ EmitCbz \/ EmitB \/ SetLabelTarget \/ PatchBranchTargets \/ MachineCode

SpecAsm == InitAsm /\ [][NextAsm]_vars

(* ----------------------------- bit packing ----------------------------- *)

\* register numbers, immediates and bit ranges handed to BitPack::at
PackRegs == {0, 19, 31, 32, 255}
PackImms == {-6, -1, 0, 5, 200, 5000}
PackOperands ==
    {X(n) : n \in PackRegs} \cup {W(n) : n \in PackRegs}
        \cup {Imm(size, v) : size \in {7, 12, 19}, v \in PackImms}
        \cup {Umm(7, as_u32(v)) : v \in {-2, 4, 128}}
PackRanges == {<<0, 4>>, <<5, 9>>, <<10, 21>>, <<15, 21>>, <<5, 23>>, <<0, 3>>}

InitPack == PipelineIdle /\ OthersIdle

\* operand.at(start..=end)
Pack ==
    /\ \E operand \in PackOperands, range \in PackRanges :
          packed' = [op |-> "at", operand |-> operand, start |-> range[1],
                     end |-> range[2],
                     word |-> at(operand, range[1], range[2])]
    /\ UNCHANGED <<pipeline, extras, regions, assembly, cpu>>

\* the word of stp_offset(FP, LR, SP, imm)
StpOffset ==
    /\ \E imm \in {-16, 0, 32, 504, 1024} :
          packed' = [op |-> "stp_offset", operand |-> Umm(7, as_u32(imm \div 8)),
                     start |-> 15, end |-> 21,
                     word |-> stp_offset_word(FP, LR, SP, imm)]
    /\ UNCHANGED <<pipeline, extras, regions, assembly, cpu>>

NextPack == Pack \/ StpOffset

SpecPack == InitPack /\ [][NextPack]_vars

(* ------------------------- running the native code --------------------- *)

\* compile_to_native_code: CodeGenerator::compile, then the code is loaded;
\* the source is compiled for both back-ends before either runs
CompileNative ==
    /\ stage = "compiled"
    /\ machine.status = "idle"
    /\ cpu.status = "idle"
    /\ \E overflow_checks \in BOOLEAN :
          LET r == codegen_compile(opt, overflow_checks)
          IN  cpu' = [cpu EXCEPT !.status = IF r.panicked THEN "panicked" ELSE "loaded",
                                 !.code = r.code]
    /\ UNCHANGED <<pipeline, extras, regions, assembly, packed>>

\* CompiledProgram::run: program(universe.as_mut_ptr(), putchar, getchar),
\* on a zeroed tape as long as the interpreter's, once the interpreter has run
\* the same source to its end
Enter ==
    /\ cpu.status = "loaded"
    /\ machine.status = "returned"
    /\ \E host \in Hosts : cpu' = Entered(cpu.code, host, Len(machine.universe))
    /\ UNCHANGED <<pipeline, extras, regions, assembly, packed>>

IsGetChar(call) == call.fn = "getchar"

\* the bytes getchar may return to the native code: the ones the interpreter
\* was given, in the same order, and any byte after those
NativeInputs ==
    LET given == SelectSeq(machine.calls, IsGetChar)
        j == Len(SelectSeq(cpu.calls, IsGetChar)) + 1
    IN  IF j <= Len(given) THEN {given[j].val} ELSE InputVals

\* the processor executes the instruction at pc
NativeStep ==
    /\ cpu.status = "running"
    /\ IF cpu.pc < 0 \/ cpu.pc >= Len(cpu.code)
       THEN cpu' = Fault(cpu)
       ELSE LET call == IsBlr(cpu.code[cpu.pc + 1]) IN
            /\ call => Len(cpu.calls) < MaxCalls
            /\ \E input \in (IF call THEN NativeInputs ELSE {0}),
                  clobber \in (IF call THEN Clobbers ELSE {0}) :
                  cpu' = NativeExec(cpu, input, clobber)
    /\ UNCHANGED <<pipeline, extras, regions, assembly, packed>>

NextNative == NextRun \/ CompileNative \/ Enter \/ NativeStep

SpecNative == InitRun /\ [][NextNative]_vars

(* ---------------- both back-ends on a control-flow graph ---------------- *)

\* a tape long enough for one move of 4096 cells
BackTapeLen == 4097

\* what optimize() leaves of straight-line sources: no two neighbours of the
\* same kind, the moves being runs of 1 or of 4096 '>'
BackInstrs ==
    {Instr("ChangeVal", 1), Instr("ChangeAddr", 1), Instr("ChangeAddr", 4096),
     Instr("PutChar", 0)}
BackCfgs ==
    {<<BasicBlock(0, is \o <<Instr("Terminate", 0)>>)>> :
        is \in {s \in SourcesOver(BackInstrs, MaxInstrs) :
                  \A i \in 1..(Len(s) - 1) :
                      s[i].op # s[i + 1].op \/ s[i].op = "PutChar"}}

InitBack ==
    /\ stage = "optimized"
    /\ source = <<>>
    /\ ast = NoResult
    /\ cfg = NoCfg
    /\ opt \in BackCfgs
    /\ opt2 = <<>>
    /\ program = NoProgram
    /\ machine = Machine([i \in 1..BackTapeLen |-> 0], 0, 0, <<>>, "idle")
    /\ OthersIdle

NextBack == Compile \/ Run \/ Step \/ FallOff \/ CompileNative \/ Enter \/ NativeStep

SpecBack == InitBack /\ [][NextBack]_vars

(* ------------------ the code generator on any CFG ---------------------- *)

\* one block of any instructions, or no block at all
GenCfgs == HandBlocks \cup {<<>>}

InitGen ==
    /\ stage = "optimized"
    /\ source = <<>>
    /\ ast = NoResult
    /\ cfg = NoCfg
    /\ opt \in GenCfgs
    /\ opt2 = <<>>
    /\ program = NoProgram
    /\ machine = Idle
    /\ OthersIdle

NextGen == Compile \/ CompileNative

SpecGen == InitGen /\ [][NextGen]_vars

(* ------------------ the bytecode of the unoptimized CFG ---------------- *)

Ended(m) == m.status \in {"returned", "panicked"}

\* what getchar returns to a run that follows another one: the values the
\* first run was given, in the same order, and any value after those
ReplayedInputs(first_calls, own_calls) ==
    LET given == SelectSeq(first_calls, IsGetChar)
        j == Len(SelectSeq(own_calls, IsGetChar)) + 1
    IN  IF j <= Len(given) THEN {given[j].val} ELSE InputVals

\* InterpretedProgram::new(&ir::lower(&ast)) and the entry of
\* run_with_custom_io on a zeroed universe, once the optimized program has
\* run to its end
CompileNaive ==
    /\ stage = "compiled"
    /\ Ended(machine)
    /\ naive.machine.status = "idle"
    /\ naive' = [program |-> compile_cfg_to_bytecode(cfg.blocks),
                 machine |-> [Idle EXCEPT !.status = "running"]]
    /\ UNCHANGED <<pipeline, regions, assembly, packed, cpu, probe, direct>>

\* one turn of the interpreter loop on the unoptimized bytecode
StepNaive ==
    /\ naive.machine.status = "running"
    /\ ~naive.program.panicked
    /\ naive.machine.program_counter < Len(naive.program.code)
    /\ LET bc == naive.program.code[naive.machine.program_counter + 1] IN
       /\ IsCallback(bc) => Len(naive.machine.calls) < MaxCalls
       /\ \E c \in (IF bc.op = "GetChar"
                     THEN ReplayedInputs(machine.calls, naive.machine.calls)
                     ELSE {0}) :
             naive' = [naive EXCEPT !.machine = Exec(naive.machine, bc, c)]
    /\ UNCHANGED <<pipeline, regions, assembly, packed, cpu, probe, direct>>

\* the loop condition fails
FallOffNaive ==
    /\ naive.machine.status = "running"
    /\ naive.machine.program_counter >= Len(naive.program.code)
    /\ naive' = [naive EXCEPT !.machine.status = "returned"]
    /\ UNCHANGED <<pipeline, regions, assembly, packed, cpu, probe, direct>>

NextEquiv == NextRun \/ CompileNaive \/ StepNaive \/ FallOffNaive

SpecEquiv == InitRun /\ [][NextEquiv]_vars

(* ----------------- the source run by main.rs's interpret --------------- *)

\* run_with_custom_io is entered while interpret() is not running
RunApart ==
    /\ direct.machine.status # "running"
    /\ Run

\* main.rs parse(&source_text) and the entry of interpret(&program), while
\* the bytecode interpreter is not running.  The program interpreted is the
\* parsed source as written: the coalescing pass of main() (main.rs:35) is
\* not applied, so every instruction of the source is executed on its own.
DirectParse ==
    /\ stage = "compiled"
    /\ machine.status # "running"
    /\ direct.machine.status = "idle"
    /\ main_parse(source).ok
    /\ direct' = [program |-> main_parse(source).program,
                  machine |-> [Idle EXCEPT !.status = "running"]]
    /\ UNCHANGED <<pipeline, regions, assembly, packed, cpu, probe, naive>>

\* the bytes of stdin, which both programs read one at a time
\* (main.rs:85-89, jit.rs:26-33)
StdinBytes == {AsU8(v) : v \in InputVals}

\* what stdin holds: what the interpreter's getchar returned, if the
\* interpreter has run
DirectInputs ==
    IF machine.status = "idle" THEN StdinBytes
    ELSE ReplayedInputs(machine.calls, direct.machine.calls)

\* one iteration of the loop of interpret()
DirectStep ==
    /\ direct.machine.status = "running"
    /\ direct.machine.program_counter < Len(direct.program)
    /\ LET instr == direct.program[direct.machine.program_counter + 1] IN
       /\ instr.op \in {"PrintChar", "GetChar"} => Len(direct.machine.calls) < MaxCalls
       /\ \E c \in (IF instr.op = "GetChar" THEN DirectInputs ELSE {0}) :
             direct' = [direct EXCEPT !.machine = interpret(direct.machine, direct.program, c)]
    /\ UNCHANGED <<pipeline, regions, assembly, packed, cpu, probe, naive>>

\* the loop condition of interpret() fails
DirectFallOff ==
    /\ direct.machine.status = "running"
    /\ direct.machine.program_counter >= Len(direct.program)
    /\ direct' = [direct EXCEPT !.machine.status = "returned"]
    /\ UNCHANGED <<pipeline, regions, assembly, packed, cpu, probe, naive>>

\* the getchar of a run_with_custom_io that follows interpret() returns the
\* bytes interpret() has read
StepApart ==
    /\ machine.status = "running"
    /\ machine.program_counter < Len(program.code)
    /\ LET bc == program.code[machine.program_counter + 1] IN
       /\ IsCallback(bc) => Len(machine.calls) < MaxCalls
       /\ \E c \in (IF bc.op = "GetChar"
                     THEN (IF direct.machine.status = "idle" THEN StdinBytes
                           ELSE ReplayedInputs(direct.machine.calls, machine.calls))
                     ELSE {0}) :
             machine' = Exec(machine, bc, c)
    /\ UNCHANGED <<stage, source, ast, cfg, opt, opt2, program>>
    /\ UNCHANGED others

\* no source file read yet
InitDirect ==
    /\ stage = "unread"
    /\ source = <<>>
    /\ ast = NoResult
    /\ cfg = NoCfg
    /\ opt = <<>>
    /\ opt2 = <<>>
    /\ program = NoProgram
    /\ machine = Idle
    /\ OthersIdle

\* fs::read(filename)
ReadSource ==
    /\ stage = "unread"
    /\ source' \in SourcesOver(InstrBytes, MaxRunLen)
    /\ stage' = "source"
    /\ UNCHANGED <<ast, cfg, opt, opt2, program, machine>>
    /\ UNCHANGED others

\* the steps of the two programs
NextPrograms ==
    RunApart \/ StepApart \/ FallOff \/ DirectParse \/ DirectStep \/ DirectFallOff

NextDirect == ReadSource \/ Next \/ NextPrograms

\* a program that can be started is started, and one that can take a step
\* takes it
SpecDirect == InitDirect /\ [][NextDirect]_vars /\ WF_vars(NextPrograms)

(* ---------------------- ChangeVal in native code ----------------------- *)

\* the byte of the cell before the ChangeVal
OldBytes == {0, 1, 255}

\* ChangeVal(old) to set the cell, then ChangeVal(d) for every byte d
ValCfgs ==
    {<<BasicBlock(0, <<Instr("ChangeVal", old), Instr("ChangeVal", d),
                       Instr("Terminate", 0)>>)>> :
        old \in OldBytes, d \in 0..(ByteMod - 1)}

InitVal ==
    /\ stage = "optimized"
    /\ source = <<>>
    /\ ast = NoResult
    /\ cfg = NoCfg
    /\ opt \in ValCfgs
    /\ opt2 = <<>>
    /\ program = NoProgram
    /\ machine = Idle
    /\ OthersIdle

SpecVal == InitVal /\ [][NextBack]_vars

(* ------------------- bytecode of CFGs with branches -------------------- *)

\* most blocks of a hand-made CFG
MaxBlocks == 3

\* what a block of a hand-made CFG holds: nothing, or one instruction, which
\* may branch to any label up to MaxBlocks - 1
PatchInstrs ==
    {Instr("ChangeVal", 1), Instr("PutChar", 0)}
        \cup {Instr(op, l) : op \in {"BranchIfZero", "BranchTo"}, l \in 0..(MaxBlocks - 1)}
PatchBodies == {<<>>} \cup {<<instr>> : instr \in PatchInstrs}

\* CFGs built through ControlFlowGraph::new, the blocks labelled 0, 1, ...
\* in order, and the optimized CFGs of the well-formed sources
PatchCfgs ==
    UNION {{[i \in 1..n |-> BasicBlock(i - 1, bodies[i])] : bodies \in [1..n -> PatchBodies]} :
              n \in 1..MaxBlocks}
        \cup {optimize(lower(parse(text).statements).blocks) :
                 text \in {t \in SourcesOver(InstrBytes, MaxRunLen) : parse(t).ok}}

InitPatch ==
    /\ stage = "optimized"
    /\ source = <<>>
    /\ ast = NoResult
    /\ cfg = NoCfg
    /\ opt \in PatchCfgs
    /\ opt2 = <<>>
    /\ program = NoProgram
    /\ machine = Idle
    /\ OthersIdle

SpecPatch == InitPatch /\ [][Compile]_vars

(* ------------------- last_instruction on the blocks -------------------- *)

\* block.last_instruction() on a block of the lowered CFG, in either build
LastInstruction ==
    /\ stage = "lowered"
    /\ \E i \in DOMAIN cfg.blocks, overflow_checks \in BOOLEAN :
          probe' = [instructions |-> cfg.blocks[i].instructions,
                    result |-> BasicBlock_last_instruction(cfg.blocks[i],
                                                           overflow_checks)]
    /\ UNCHANGED <<pipeline, regions, assembly, packed, cpu, naive, direct>>

NextProbe == Next \/ LastInstruction

SpecProbe == InitRun /\ [][NextProbe]_vars

(* =============================== properties ============================ *)

Parsed == stage # "source"
Accepted == stage \notin {"source", "rejected"} /\ ast.ok

Positions(seq, P(_)) == {i \in DOMAIN seq : P(seq[i])}
Count(seq, P(_)) == Cardinality(Positions(seq, P))

IsStart(k, s) == s = Stmt("StartConditional", k)
IsEnd(k, s) == s = Stmt("EndConditional", k)
StartsOf(k) == {i \in DOMAIN ast.statements : IsStart(k, ast.statements[i])}
EndsOf(k) == {i \in DOMAIN ast.statements : IsEnd(k, ast.statements[i])}
IdsUsed ==
    {ast.statements[i].id : i \in {j \in DOMAIN ast.statements :
        ast.statements[j].op \in {"StartConditional", "EndConditional"}}}
StartOf(k) == CHOOSE i \in StartsOf(k) : TRUE
EndOf(k) == CHOOSE i \in EndsOf(k) : TRUE

\* C1: in the statement list of an accepted source every conditional id that
\* occurs has exactly one StartConditional and exactly one EndConditional, the
\* start comes first, and two pairs are either disjoint or one inside the
\* other (every end closes the most recently opened, still open start).
C1_PairsBalanced ==
    Accepted =>
        /\ \A k \in IdsUsed :
              /\ Cardinality(StartsOf(k)) = 1
              /\ Cardinality(EndsOf(k)) = 1
              /\ StartOf(k) < EndOf(k)
        /\ \A k \in IdsUsed : \A j \in IdsUsed :
              ~(StartOf(k) < StartOf(j) /\ StartOf(j) < EndOf(k) /\ EndOf(k) < EndOf(j))

\* an accepted source with one loop inside another
C1_Witness ==
    /\ Accepted
    /\ \E k \in IdsUsed : \E j \in IdsUsed :
          StartOf(k) < StartOf(j) /\ EndOf(j) < EndOf(k)

\* brackets of the source text, counted on the text itself
Opens(text, i) == Cardinality({j \in 1..i : text[j] = "["})
Closes(text, i) == Cardinality({j \in 1..i : text[j] = "]"})
Newlines(text, i) == Cardinality({j \in 1..i : text[j] = NL})
Underflows(text) == {i \in DOMAIN text : Closes(text, i) > Opens(text, i)}
FirstUnderflow(text) ==
    CHOOSE i \in Underflows(text) : \A j \in Underflows(text) : i <= j
Balanced(text) ==
    Underflows(text) = {} /\ Opens(text, Len(text)) = Closes(text, Len(text))

\* C2: a ']' met with no conditional open makes parse() fail with
\* TooManyCloseBrackets, without an AST, at line 1 + the number of newlines
\* before that ']'; the source "+]" reports line 1.
C2_TooManyClose ==
    /\ (Parsed /\ Underflows(source) # {}) =>
          /\ ~ast.ok
          /\ ast.statements = <<>>
          /\ ast.reason = TooManyCloseBrackets
          /\ ast.line_no = 1 + Newlines(source, FirstUnderflow(source) - 1)
    /\ (Parsed /\ source = <<"+", "]">>) =>
          ast.reason = TooManyCloseBrackets /\ ast.line_no = 1

\* a stray ']' on the second line, with a newline after it as well
C2_Witness ==
    /\ stage = "rejected"
    /\ ast.reason = TooManyCloseBrackets
    /\ ast.line_no = 2
    /\ Newlines(source, Len(source)) > 1

\* C3: when all input is consumed without a stray ']' and a '[' is still
\* open, parse() fails with the too-many-'[' error (identifier 0x002) at the
\* line counter's final value; a source is accepted iff its brackets balance.
C3_TooManyOpen ==
    Parsed =>
        /\ (Underflows(source) = {} /\ ~Balanced(source)) =>
              /\ ~ast.ok
              /\ ast.reason = TooManyOpenBrackets
              /\ message_identifier(ast.reason) = 2
              /\ ast.line_no = 1 + Newlines(source, Len(source))
        /\ ast.ok <=> Balanced(source)

\* an unclosed '[' in a source with a newline
C3_Witness ==
    /\ stage = "rejected"
    /\ ast.reason = TooManyOpenBrackets
    /\ ast.line_no = 2

Lowered == stage \in {"lowered", "optimized", "compiled"}
Optimized == stage \in {"optimized", "compiled"}

Labels(blocks) == {blocks[i].block_id : i \in DOMAIN blocks}
IsBranch(instr) == instr.op \in {"BranchIfZero", "BranchTo"}

\* C4: the CFG lowered from a parsed AST has at least one block, the block at
\* position i has label i, the last instruction of the last block is
\* Terminate, every branch names the label of a block of the CFG, and no NoOp
\* placeholder is left.
C4_CfgWellFormed ==
    Lowered =>
        LET blocks == cfg.blocks IN
        /\ ~cfg.panicked
        /\ Len(blocks) >= 1
        /\ \A i \in DOMAIN blocks : blocks[i].block_id = i - 1
        /\ blocks[Len(blocks)].instructions # <<>>
        /\ last(blocks[Len(blocks)].instructions) = Instr("Terminate", 0)
        /\ \A i \in DOMAIN blocks : \A n \in DOMAIN blocks[i].instructions :
              LET instr == blocks[i].instructions[n] IN
              /\ IsBranch(instr) => instr.arg \in Labels(blocks)
              /\ instr.op # "NoOp"

\* a lowered program with a loop whose body is not empty
C4_Witness ==
    /\ Lowered
    /\ \E i \in DOMAIN cfg.blocks :
          /\ Len(cfg.blocks[i].instructions) > 1
          /\ last(cfg.blocks[i].instructions).op = "BranchTo"

\* the label lower() is at when it reaches statement i: two blocks are made at
\* every '[' and one at every ']'
BlockIdAt(i) ==
    2 * Cardinality({j \in 1..(i - 1) : ast.statements[j].op = "StartConditional"})
      + Cardinality({j \in 1..(i - 1) : ast.statements[j].op = "EndConditional"})

\* C5: for every bracket pair k, the block P made at its '[' holds only
\* BranchIfZero(E) and the block C closed at its ']' ends in BranchTo(P),
\* with E the label after C.
C5_LoopShape ==
    Lowered =>
        /\ DOMAIN cfg.associated_start_block = IdsUsed
        /\ \A k \in IdsUsed :
              LET P == BlockIdAt(StartOf(k)) + 1
                  C == BlockIdAt(EndOf(k))
                  E == C + 1
              IN  /\ cfg.associated_start_block[k] = P
                  /\ cfg.blocks[P + 1].block_id = P
                  /\ cfg.blocks[P + 1].instructions = <<Instr("BranchIfZero", E)>>
                  /\ cfg.blocks[C + 1].block_id = C
                  /\ last(cfg.blocks[C + 1].instructions) = Instr("BranchTo", P)
                  /\ E \in Labels(cfg.blocks)

\* a lowered program with one loop inside another
C5_Witness ==
    /\ Lowered
    /\ \E k \in IdsUsed : \E j \in IdsUsed :
          StartOf(k) < StartOf(j) /\ EndOf(j) < EndOf(k)

\* a lowered program with one loop after another
C5_WitnessConsecutive ==
    /\ Lowered
    /\ \E k \in IdsUsed : \E j \in IdsUsed : EndOf(k) < StartOf(j)

IsControl(instr) ==
    instr.op \in {"BranchIfZero", "BranchTo", "Terminate", "PutChar", "GetChar"}
Control(instructions) == SelectSeq(instructions, IsControl)

\* C6: optimize() keeps the number, order and labels of the blocks, and in
\* every block the sequence of branches, Terminate, PutChar and GetChar.
C6_ShapePreserved ==
    Optimized =>
        /\ Len(opt) = Len(cfg.blocks)
        /\ \A i \in DOMAIN opt :
              /\ opt[i].block_id = cfg.blocks[i].block_id
              /\ Control(opt[i].instructions) = Control(cfg.blocks[i].instructions)

\* an optimized program with a loop, in which something was coalesced
C6_Witness ==
    /\ Optimized
    /\ opt # cfg.blocks
    /\ \E i \in DOMAIN opt : IsBranch(last(<<Instr("NoOp", 0)>> \o opt[i].instructions))

\* an optimized program with two callbacks in a row
C6_WitnessCallbacks ==
    /\ Optimized
    /\ \E i \in DOMAIN opt : \E n \in 1..(Len(opt[i].instructions) - 1) :
          /\ opt[i].instructions[n].op \in {"PutChar", "GetChar"}
          /\ opt[i].instructions[n + 1] = opt[i].instructions[n]

IsChangeVal(instr) == instr.op = "ChangeVal"
OnlyPlusMinus(text) == \A i \in DOMAIN text : text[i] \in {"+", "-"}
Pluses(text) == Cardinality({i \in DOMAIN text : text[i] = "+"})
Minuses(text) == Cardinality({i \in DOMAIN text : text[i] = "-"})
\* (n - m) mod 256 as a byte
SignedSum(text) == (Pluses(text) - Minuses(text) + ByteMod * Len(text)) % ByteMod

\* C8: for a source of '+' and '-' only, the optimized CFG is one block with
\* at most one ChangeVal, whose delta is (pluses - minuses) mod 256.
C8_DeltaCoalesced ==
    (Optimized /\ OnlyPlusMinus(source)) =>
        /\ Len(opt) = 1
        /\ Count(opt[1].instructions, IsChangeVal) <= 1
        /\ \A n \in DOMAIN opt[1].instructions :
              IsChangeVal(opt[1].instructions[n]) =>
                 opt[1].instructions[n].arg = SignedSum(source)
        /\ source # <<>> => Count(opt[1].instructions, IsChangeVal) = 1

\* more '-' than '+', several of each kind coalesced: the sum wraps
C8_Witness ==
    /\ Optimized
    /\ OnlyPlusMinus(source)
    /\ Pluses(source) > 0
    /\ Minuses(source) > Pluses(source) + 1

\* C7: optimize(optimize(cfg)) = optimize(cfg) for every CFG, NoOp included.
C7_Idempotent ==
    stage = "reoptimized" => opt2 = opt

IsTerminate(x) == x.op = "Terminate"
RECURSIVE FlatInstrs(_, _)
\* the instructions of blocks i.. in block order
FlatInstrs(blocks, i) ==
    IF i > Len(blocks) THEN <<>>
    ELSE blocks[i].instructions \o FlatInstrs(blocks, i + 1)

\* C9: compile_cfg_to_bytecode turns every Terminate instruction, and nothing
\* else, into the Terminate opcode, and the interpreter returns at that
\* opcode without changing the tape or the pointer or making a callback.
C9_TerminateCompiled ==
    /\ stage = "compiled" =>
          LET flat == SelectSeq(FlatInstrs(opt, 1), LAMBDA x : x.op # "NoOp") IN
          /\ Len(program.code) = Len(flat)
          /\ \A i \in DOMAIN flat :
                IsTerminate(flat[i]) <=> IsTerminate(program.code[i])
    /\ machine.status = "running" =>
          Exec(machine, Bytecode("Terminate", 0), 0) = [machine EXCEPT !.status = "returned"]

AtChangeAddr ==
    /\ machine.status = "running"
    /\ machine.program_counter < Len(program.code)
    /\ program.code[machine.program_counter + 1].op = "ChangeAddr"

PointerInTape ==
    machine.current_address \in 0..(Len(machine.universe) - 1)

\* what the claim lets a ChangeAddr(d) do
ChangeAddrStep ==
    AtChangeAddr =>
        LET d == program.code[machine.program_counter + 1].arg
            target == machine.current_address + d
        IN  IF 0 <= target /\ target < Len(machine.universe)
            THEN machine' = [machine EXCEPT !.current_address = target,
                                            !.program_counter = machine.program_counter + 1]
            ELSE machine' = [machine EXCEPT !.status = "panicked"]

\* C10: ChangeAddr(d) moves the pointer by d when the result is inside the
\* tape and otherwise panics, leaving the pointer and the tape alone; so the
\* pointer the interpreter reads and writes through is always inside the tape.
C10_ChangeAddrChecked ==
    [][ChangeAddrStep]_vars /\ [](machine.status # "idle" => PointerInTape)

\* the pointer moved, a cell was written there, and a later ChangeAddr panicked
C10_Witness ==
    /\ machine.status = "panicked"
    /\ program.code[machine.program_counter + 1].op = "ChangeAddr"
    /\ machine.current_address > 0
    /\ machine.universe[machine.current_address + 1] # 0

\* the interpreter is about to execute the BranchIfZero at the head of a loop
\* and the current cell is 0
AtLoopHeadZero ==
    /\ machine.status = "running"
    /\ machine.program_counter < Len(program.code)
    /\ program.code[machine.program_counter + 1].op = "BranchIfZero"
    /\ Cell(machine) = 0

\* the offset after the BranchTo that closes the loop whose head is at offset
\* head: the closest later BranchTo that jumps back to head
AfterLoop(head) ==
    LET closers == {t \in DOMAIN program.code :
                       /\ t - 1 > head
                       /\ program.code[t] = Bytecode("BranchTo", head)}
    IN  CHOOSE t \in closers : \A u \in closers : t <= u

SkipsLoop ==
    AtLoopHeadZero =>
        machine' = [machine EXCEPT !.program_counter = AfterLoop(machine.program_counter)]

ZeroTape == [i \in 1..TapeLen |-> 0]

\* C11: at the head of a loop with the current cell 0 the interpreter goes on
\* at the first opcode after the loop, with the tape, the pointer and the
\* callbacks made unchanged; "[++]" on a zeroed tape makes no callback and
\* leaves the tape all zero.
C11_LoopSkipped ==
    /\ [][SkipsLoop]_vars
    /\ [](source = <<"[", "+", "+", "]">> /\ machine.status \in {"running", "returned"}
            => machine.calls = <<>> /\ machine.universe = ZeroTape)

\* the interpreter stands right after a loop with a body that it never entered
C11_Witness ==
    /\ machine.status = "running"
    /\ machine.program_counter >= 3
    /\ program.code[machine.program_counter].op = "BranchTo"
    /\ program.code[machine.program_counter - 1].op = "ChangeVal"
    /\ program.code[machine.program_counter - 2].op = "BranchIfZero"
    /\ machine.universe = ZeroTape

\* C12: a source of n '+' and m '-' runs without a callback and returns with
\* tape[0] = (n - m) mod 256 and every other cell 0.
C12_PlusMinusRun ==
    (machine.status = "returned" /\ OnlyPlusMinus(source)) =>
        /\ machine.calls = <<>>
        /\ machine.universe = [i \in 1..TapeLen |-> IF i = 1 THEN SignedSum(source) ELSE 0]

\* C17: the protection of a mapping never holds write and execute together;
\* it is none, read|write or read|execute.
C17_NeverWriteAndExecute ==
    \A r \in 1..MaxRegions :
        /\ ~({PROT_WRITE, PROT_EXEC} \subseteq regions[r].prot)
        /\ regions[r].prot \in {{}, {PROT_READ, PROT_WRITE}, {PROT_READ, PROT_EXEC}}

\* a mapping that was written and is now executable
C17_Witness ==
    \E r \in 1..MaxRegions :
        /\ regions[r].mapped
        /\ regions[r].to_writable = 1
        /\ regions[r].prot = {PROT_READ, PROT_EXEC}

\* reserved = 0, writable = 1, executable = 2
Rank(reg) ==
    IF PROT_EXEC \in reg.prot THEN 2 ELSE IF PROT_WRITE \in reg.prot THEN 1 ELSE 0

Forward == \A r \in 1..MaxRegions : Rank(regions'[r]) >= Rank(regions[r])

\* C18: the protection only moves forward along reserved, writable,
\* executable; each transition happens at most once per mapping and at most
\* one handle to a mapping is live at any time.
C18_OneWay ==
    /\ [][Forward]_vars
    /\ [](\A r \in 1..MaxRegions :
            /\ regions[r].to_writable <= 1
            /\ regions[r].to_executable <= 1
            /\ Cardinality(regions[r].handles) <= 1)

\* both transitions have happened to one mapping
C18_Witness ==
    \E r \in 1..MaxRegions :
        /\ regions[r].to_writable = 1
        /\ regions[r].to_executable = 1
        /\ regions[r].handles = {"ExecutableRegion"}

\* C19: a mapping is unmapped exactly once, when its handle is destroyed in
\* whatever state, also when a transition fails: the failure is returned as
\* Internal(errno) and the mapping is released, not leaked, not unmapped twice.
C19_UnmappedOnce ==
    \A r \in 1..MaxRegions :
        /\ regions[r].munmaps <= regions[r].mmaps
        /\ regions[r].mapped <=> regions[r].handles # {}
        /\ regions[r].mapped => regions[r].munmaps = 0
        /\ ~regions[r].mapped => regions[r].munmaps = regions[r].mmaps
        /\ regions[r].result = "Internal" => ~regions[r].mapped /\ regions[r].handles = {}

\* a transition to executable failed on a writable mapping, which is gone
C19_Witness ==
    \E r \in 1..MaxRegions :
        /\ regions[r].result = "Internal"
        /\ regions[r].prot = {PROT_READ, PROT_WRITE}
        /\ regions[r].mmaps = 1
        /\ regions[r].munmaps = 1

IsCbzWord(word) == word \cap (24..31) = {26, 28, 29}
IsBWord(word) == word \cap (26..31) = {26, 28}
\* the displacement field of a branch word
DispLo(which) == IF which = "Cbz" THEN 5 ELSE 0
DispHi(which) == IF which = "Cbz" THEN 23 ELSE 25

Pending == assembly.a.unresolved_branch_targets
SitesAt(i) == {k \in DOMAIN Pending : Pending[k].source = i - 1}
AllLabelsSet ==
    \A k \in DOMAIN Pending : Pending[k].label \in DOMAIN assembly.a.label_targets

PatchedRight ==
    (assembly'.op = "patch_branch_targets" /\ AllLabelsSet) =>
        /\ ~assembly'.a.panicked
        /\ assembly'.a.unresolved_branch_targets = <<>>
        /\ assembly'.a.label_targets = assembly.a.label_targets
        /\ Len(assembly'.a.instr) = Len(assembly.a.instr)
        /\ \A i \in DOMAIN assembly.a.instr :
              LET old == assembly.a.instr[i]
                  new == assembly'.a.instr[i]
              IN  IF SitesAt(i) = {}
                  THEN new = old
                  ELSE \A k \in SitesAt(i) :
                          LET lo == DispLo(Pending[k].instr)
                              hi == DispHi(Pending[k].instr)
                              target == assembly.a.label_targets[Pending[k].label]
                          IN  /\ SignedField(new, lo, hi) = target - Pending[k].source
                              /\ new \ (lo..hi) = old \ (lo..hi)

\* C14: patch_branch_targets, every referenced label having a target, empties
\* the list of pending sites and stores target - site in the displacement
\* field of each site (bits 5-23 of a cbz, bits 0-25 of a b) in two's
\* complement, forward or backward, and changes nothing else in the buffer.
C14_BranchesPatched == [][PatchedRight]_vars

\* a buffer just patched that holds a backward and a forward branch
C14_Witness ==
    /\ assembly.op = "patch_branch_targets"
    /\ ~assembly.a.panicked
    /\ \E i, j \in DOMAIN assembly.a.instr :
          /\ IsBWord(assembly.a.instr[i])
          /\ SignedField(assembly.a.instr[i], 0, 25) < 0
          /\ IsCbzWord(assembly.a.instr[j])
          /\ SignedField(assembly.a.instr[j], 5, 23) > 0

\* a branch was emitted after the last patch_branch_targets
BranchSincePatch ==
    \E i \in DOMAIN assembly.a.instr :
        /\ i > assembly.patched_len
        /\ IsCbzWord(assembly.a.instr[i]) \/ IsBWord(assembly.a.instr[i])

\* C15: machine_code() returns the buffer when no branch site is unresolved
\* and panics otherwise; a branch emitted after the last patch_branch_targets
\* is unresolved until patching runs again.
C15_MachineCodeChecked ==
    ~assembly.a.panicked =>
        /\ assembly.op = "machine_code" =>
              assembly.result = (IF Pending = <<>> THEN "Returned" ELSE "Panicked")
        /\ BranchSincePatch <=> Pending # <<>>

\* machine_code() panicked because of a branch emitted after a patch
C15_Witness ==
    /\ assembly.op = "machine_code"
    /\ assembly.result = "Panicked"
    /\ assembly.patched_len > 0

\* the value of the operand needs no more bits than its declared size, as an
\* unsigned number or, for Imm, as a sign-extended one
Fits(operand) ==
    \/ operand.value \subseteq 0..(operand.size - 1)
    \/ /\ operand.type = "Imm"
       /\ (operand.size - 1)..31 \subseteq operand.value

\* C16: an operand whose value does not fit the declared field width is
\* rejected with a panic, never encoded, and no operand sets a bit outside its
\* own bit range of the word.
C16_OperandsChecked ==
    /\ packed.op = "at" =>
          /\ ~Fits(packed.operand) => packed.word = AssertFailed
          /\ packed.word # AssertFailed => packed.word \subseteq packed.start..packed.end
    /\ packed.op = "stp_offset" =>
          /\ ~Fits(packed.operand) => packed.word = AssertFailed
          /\ packed.word # AssertFailed =>
                packed.word \cap (22..31) = {24, 27, 29, 31} \cap (22..31)

IsPutChar(call) == call.fn = "putchar"
\* the bytes written by the putchar calls of a run
RECURSIVE Output(_)
Output(calls) ==
    IF calls = <<>> THEN <<>>
    ELSE IF IsPutChar(Head(calls)) THEN <<Head(calls).val % 256>> \o Output(Tail(calls))
    ELSE Output(Tail(calls))
IsPrefix(s, t) == Len(s) <= Len(t) /\ SubSeq(t, 1, Len(s)) = s

Started == cpu.status \in {"running", "returned", "fault", "lost"}

\* C13: on a source the interpreter runs to the end of, on a zeroed tape it
\* never leaves, the native code for that source, given the same input bytes,
\* writes the same output bytes.
C13_SameOutput ==
    machine.status = "returned" =>
        /\ cpu.status # "panicked"
        /\ Started =>
              /\ cpu.status \notin {"fault", "lost"}
              /\ IsPrefix(Output(cpu.calls), Output(machine.calls))
              /\ cpu.status = "returned" => Output(cpu.calls) = Output(machine.calls)

FrameSlots == {cpu.host.sp - 48 + 8 * k : k \in {0, 1, 2, 4, 5}}

\* C20: the generated function returns to its caller with sp, x19, x20, x21,
\* x29 and x30 as they were at entry; its frame is the 48 bytes below the
\* caller's sp, and each saved register has a slot of its own there.
C20_FrameRestored ==
    Started =>
        /\ cpu.status # "lost"
        /\ cpu.written \subseteq FrameSlots
        /\ cpu.sp \in {cpu.host.sp, cpu.host.sp - 48}
        /\ cpu.status = "returned" =>
              /\ cpu.sp = cpu.host.sp
              /\ cpu.x[19] = cpu.host.x19
              /\ cpu.x[20] = cpu.host.x20
              /\ cpu.x[21] = cpu.host.x21
              /\ cpu.x[29] = cpu.host.x29
              /\ cpu.x[30] = cpu.host.x30
              /\ cpu.written = FrameSlots
              /\ cpu.stack[cpu.host.sp - 48] = cpu.host.x21
              /\ cpu.stack[cpu.host.sp - 40] = cpu.host.x20
              /\ cpu.stack[cpu.host.sp - 32] = cpu.host.x19
              /\ cpu.stack[cpu.host.sp - 16] = cpu.host.x29
              /\ cpu.stack[cpu.host.sp - 8] = cpu.host.x30

\* the function returned after a callback had overwritten x30
C20_Witness ==
    /\ cpu.status = "returned"
    /\ cpu.calls # <<>>
    /\ cpu.host.x19 # cpu.host.x20

(* --------------------------- the callbacks ----------------------------- *)

AtBlr ==
    /\ cpu.status = "running"
    /\ cpu.pc >= 0
    /\ cpu.pc < Len(cpu.code)
    /\ IsBlr(cpu.code[cpu.pc + 1])

\* the register a BLR word names
BlrTarget == FieldValue(cpu.code[cpu.pc + 1], 5, 9)

\* the word before the one at pc is ldrb w0, [x19]: the call is a PutChar
AfterLoadByte ==
    /\ cpu.pc >= 1
    /\ cpu.code[cpu.pc] = {22, 24, 27, 28, 29} \cup shl({0, 1, 4}, 5)

\* C21: whenever the native code is about to call a callback, x20 holds the
\* function passed as putchar and x21 the function passed as getchar; the
\* call of a PutChar (ldrb w0,[x19]; blr) goes through x20 and the call of a
\* GetChar (blr; strb w0,[x19]) through x21.
C21_CallbackRegisters ==
    AtBlr =>
        /\ cpu.x[20] = cpu.host.putchar
        /\ cpu.x[21] = cpu.host.getchar
        /\ BlrTarget = (IF AfterLoadByte THEN 20 ELSE 21)

(* ------------------------- the last instruction ------------------------ *)

Compiled == cpu.status \in {"loaded", "panicked"}

\* C22: CodeGenerator::compile gives machine code only for a CFG whose last
\* instruction is Terminate; for a CFG with no block, with an empty last
\* block or with another last instruction it panics and gives nothing,
\* whichever way the build treats the overflow in last_instruction.
C22_NoCodeWithoutTerminate ==
    Compiled =>
        \A overflow_checks \in BOOLEAN :
            ControlFlowGraph_last_instruction(opt, overflow_checks)
                    # SomeInstr(Instr("Terminate", 0))
                => cpu.status = "panicked" /\ cpu.code = <<>>

C22_Witness ==
    /\ cpu.status = "panicked"
    /\ opt # <<>>
    /\ opt[Len(opt)].instructions = <<>>

\* C25: last_instruction gives the last instruction of a block that has
\* one, and None, without a panic, for a block that has none.
C25_LastInstruction ==
    probe.result.kind # "none" =>
        IF probe.instructions = <<>>
        THEN probe.result = NoInstr
        ELSE probe.result = SomeInstr(probe.instructions[Len(probe.instructions)])

(* ------------------------ one opcode per instruction ------------------- *)

NonNoOps(blocks) == SelectSeq(FlatInstrs(blocks, 1), LAMBDA x : x.op # "NoOp")

\* C23: the bytecode of a CFG has one opcode for every instruction that is
\* not a NoOp and none for a NoOp, so it is at most one longer than the
\* number of instructions that are not NoOp.
C23_OneOpcodePerInstr ==
    (stage = "compiled" /\ ~program.panicked) =>
        /\ Len(program.code) = Len(NonNoOps(opt))
        /\ Len(program.code) <= Len(NonNoOps(opt)) + 1

(* ------------------------------ comments ------------------------------- *)

\* the source with every byte that is no instruction removed
OnlyInstrBytes(text) == SelectSeq(text, LAMBDA byte : byte \in InstrBytes)

\* the bytes parse() has read when it returns
Consumed ==
    IF ast.reason = TooManyCloseBrackets THEN FirstUnderflow(source) ELSE Len(source)

\* C24: parse() gives for a source the statement list, or the kind of error,
\* it gives for the source without the bytes that are no instruction; the
\* line of an error is one more than the number of newlines read, whatever
\* other bytes were read.
C24_CommentsIgnored ==
    Parsed =>
        LET bare == parse(OnlyInstrBytes(source)) IN
        /\ ast.ok = bare.ok
        /\ ast.statements = bare.statements
        /\ ast.reason = bare.reason
        /\ ~ast.ok => /\ bare.line_no = 1
                      /\ ast.line_no = 1 + Newlines(source, Consumed)

C24_Witness ==
    /\ Parsed
    /\ ast.ok
    /\ Len(ast.statements) = 2
    /\ \E i, j \in DOMAIN source : i < j /\ source[i] = "x" /\ source[j] = NL

C24_WitnessError ==
    /\ Parsed
    /\ ~ast.ok
    /\ ast.line_no = 2
    /\ \E i \in DOMAIN source : source[i] = "x"

(* --------------------------- branch targets ---------------------------- *)

\* the number of opcodes emitted before the block with this label
OffsetOf(blocks, label) ==
    LET i == CHOOSE j \in DOMAIN blocks : blocks[j].block_id = label
    IN  Len(FlatInstrs(SubSeq(blocks, 1, i - 1), 1))

\* every branch opcode has the kind of its instruction and the offset of the
\* referenced block as its target
TargetsPatched ==
    LET flat == FlatInstrs(opt, 1) IN
    /\ Len(program.code) = Len(flat)
    /\ \A i \in DOMAIN flat :
          IsBranch(flat[i]) =>
              /\ program.code[i].op = flat[i].op
              /\ program.code[i].arg = OffsetOf(opt, flat[i].arg)

CompiledOk == stage = "compiled" /\ ~program.panicked

OldByte == opt[1].instructions[1].arg
Delta == opt[1].instructions[2].arg
Abs(v) == IF v < 0 THEN -v ELSE v

\* the three words generated for the second ChangeVal, after the seven words
\* of the prologue and the three of the first ChangeVal
ValWords == SubSeq(cpu.code, 11, 13)
LoadByteWord == {22, 24, 27, 28, 29} \cup shl({0, 1, 4}, 5)
StoreByteWord == {24, 27, 28, 29} \cup shl({0, 1, 4}, 5)

\* C27: for every byte d, ChangeVal(d) is generated without a failure as
\* ldrb w0,[x19]; add or sub w0,w0,#a; strb w0,[x19] with a the absolute
\* value of d read as a signed byte, and the byte stored is (old + d) mod 256.
C27_ChangeValLowered ==
    /\ cpu.status # "panicked"
    /\ cpu.status # "idle" =>
          /\ Len(cpu.code) >= 13
          /\ ValWords[1] = LoadByteWord
          /\ ValWords[2] \cap (22..31) = (IF as_i8(Delta) >= 0 THEN {24, 28} ELSE {24, 28, 30})
          /\ FieldValue(ValWords[2], 10, 21) = Abs(as_i8(Delta))
          /\ FieldValue(ValWords[2], 0, 4) = 0
          /\ FieldValue(ValWords[2], 5, 9) = 0
          /\ ValWords[3] = StoreByteWord
    /\ cpu.status = "returned" => cpu.tape[1] = (OldByte + Delta) % ByteMod

(* ------------------- optimized against unoptimized --------------------- *)

BothEnded == Ended(machine) /\ Ended(naive.machine)

\* C28 as stated: the bytecode of the optimized CFG and the bytecode of the
\* unoptimized CFG make the same callback calls, leave the same tape and end
\* the same way (return or runtime error).
C28_SameObservation ==
    BothEnded =>
        /\ machine.calls = naive.machine.calls
        /\ machine.universe = naive.machine.universe
        /\ machine.status = naive.machine.status

\* C28 amended: they do whenever the unoptimized bytecode returns; when it
\* stops with the runtime error, the optimized bytecode has made the same
\* calls up to there.
C28_SameUnlessRuntimeError ==
    BothEnded =>
        IF naive.machine.status = "returned"
        THEN /\ machine.calls = naive.machine.calls
             /\ machine.universe = naive.machine.universe
             /\ machine.status = "returned"
        ELSE IsPrefix(naive.machine.calls, machine.calls)

C28_Witness ==
    /\ BothEnded
    /\ naive.machine.status = "returned"
    /\ Len(naive.program.code) > Len(program.code)
    /\ machine.calls # <<>>
    /\ \E i \in DOMAIN machine.universe : machine.universe[i] # 0

C28_WitnessRuntimeError ==
    /\ BothEnded
    /\ naive.machine.status = "panicked"
    /\ machine.status = "returned"
    /\ machine.calls # <<>>

(* ------------------------ access to the mappings ----------------------- *)

\* C29: every access made through a handle is one the protection of the
\* mapping permits: a write goes through a handle in the writable state, and
\* no read goes through a handle in the reserved state.
C29_AccessPermitted ==
    \A r \in 1..MaxRegions :
        LET access == regions[r].access IN
        /\ access.permitted
        /\ access.kind = "write" => access.handle = "WritableRegion"
        /\ access.kind = "read" => access.handle # "MappedRegion"

(* --------------------- the semantics of the source --------------------- *)

Running(m) == m.status = "running"
Returned(m) == m.status = "returned"

\* the run that comes second makes the calls the first one made, and where
\* interpret() returns the bytecode has returned after the same calls
SameCalls ==
    /\ Ended(machine) /\ Running(direct.machine)
          => IsPrefix(direct.machine.calls, machine.calls)
    /\ Returned(direct.machine) /\ Running(machine)
          => IsPrefix(machine.calls, direct.machine.calls)
    /\ Returned(direct.machine) /\ Ended(machine)
          => Returned(machine) /\ machine.calls = direct.machine.calls

\* C30: on a tape the pointer does not leave, the bytecode of a well-formed
\* source makes the putchar and getchar calls that main.rs's interpret() makes
\* on the source, with the same arguments and in the same order, and each of
\* the two runs ends if the other one does.
C30_SameAsSource ==
    /\ []SameCalls
    /\ Returned(direct.machine) ~> Returned(machine)
    /\ Returned(machine) ~> Ended(direct.machine)

C30_Witness ==
    /\ source = <<",", "[", "-", "]">>
    /\ Returned(direct.machine)
    /\ Returned(machine)
    /\ machine.calls = <<Call("getchar", 1)>>
====
